---- MODULE Spec2Model ----
(***************************************************************************)
(* The bookmark view (Home) of smart-bookmark-app: the in-memory list, the *)
(* add / edit / delete flows with their blocking and background URL        *)
(* probes, load(), and the realtime channel of the auth + realtime effect. *)
(* The repository holds two versions of Home: the list view                *)
(* (src/app/page.tsx:32-666) and the carousel view                         *)
(* (src/app/page.tsx:702-1361, with AddBookmarkModal, CommandPalette and   *)
(* Carousel3D).  `variant` says which one is mounted.                      *)
(***************************************************************************)
EXTENDS Integers, Sequences, FiniteSets, TLC

\* ------------------------------------------------------------------ bounds
MaxId == 2        \* bookmark ids the store hands out
MaxLoads == 2     \* load() calls outstanding at once
MaxInbox == 1     \* undelivered change-feed events per channel
MaxMounts == 2    \* runs of the auth + realtime effect
MaxTasks == 1     \* add / edit / delete / verification flows outstanding at once
MaxTimers == 2    \* pending auto-dismiss timers
MaxItems == 5     \* bookmarks of the list the cursor moves over
MaxCursor == 5    \* how far the cursor may run from 0
MaxStorageEvents == 1  \* undelivered 'storage' events per window

\* ----------------------------------------------------------------- strings
\* The strings a user types.  JavaScript's trim() and new URL() are modelled
\* by their results on these strings.
Titles == {"", " ", "Example"}
UrlStrings == {"", "ftp://example.com", "https://example.com", "https://example.org"}

\* more strings for the url fields: one per way of failing the format check, and
\* well-formed ones
QualifierInputs ==
  UrlStrings \cup {" ", "not a url", "http://localhost", "https://example.c",
                   "https://example.com.", "http://192.168.1.10"}

Trim(s) == IF s = " " THEN "" ELSE s

ParseError == [ok |-> FALSE, protocol |-> "", hostname |-> <<>>]

\* new URL(s): its protocol, and its hostname as hostname.split('.') returns it
NewURL(s) ==
  CASE s = "https://example.com" ->
         [ok |-> TRUE, protocol |-> "https:", hostname |-> <<"example", "com">>]
    [] s = "https://example.org" ->
         [ok |-> TRUE, protocol |-> "https:", hostname |-> <<"example", "org">>]
    [] s = "ftp://example.com" ->
         [ok |-> TRUE, protocol |-> "ftp:", hostname |-> <<"example", "com">>]
    [] s = "http://localhost" ->
         [ok |-> TRUE, protocol |-> "http:", hostname |-> <<"localhost">>]
    [] s = "https://example.c" ->
         [ok |-> TRUE, protocol |-> "https:", hostname |-> <<"example", "c">>]
    [] s = "https://example.com." ->
         [ok |-> TRUE, protocol |-> "https:", hostname |-> <<"example", "com", "">>]
    [] s = "http://192.168.1.10" ->
         [ok |-> TRUE, protocol |-> "http:", hostname |-> <<"192", "168", "1", "10">>]
    [] s = "https://example.com/localhost" ->
         [ok |-> TRUE, protocol |-> "https:", hostname |-> <<"example", "com">>]
    [] OTHER -> ParseError

\* mutant of validateUrlFormat: the protocol test is missing
validateUrlFormat_AnyScheme(urlString) ==
  IF Trim(urlString) = "" THEN FALSE
  ELSE LET url == NewURL(urlString) IN
       IF ~url.ok THEN FALSE
       ELSE IF Len(url.hostname) < 2 THEN FALSE
       ELSE Len(url.hostname[Len(url.hostname)]) >= 2

\* validateUrlFormat of the carousel view's Home
validateUrlFormat(urlString) ==
  IF Trim(urlString) = "" THEN FALSE
  ELSE LET url == NewURL(urlString) IN
       IF ~url.ok THEN FALSE
       ELSE IF url.protocol # "http:" /\ url.protocol # "https:" THEN FALSE
       ELSE IF Len(url.hostname) < 2 THEN FALSE
       ELSE Len(url.hostname[Len(url.hostname)]) >= 2

\* mutant of validateUrlFormat_Modal: the length of the last label is not looked at
validateUrlFormat_Modal_AnyTld(urlString) ==
  IF Trim(urlString) = "" THEN FALSE
  ELSE LET url == NewURL(urlString) IN
       IF ~url.ok THEN FALSE
       ELSE IF url.protocol # "http:" /\ url.protocol # "https:" THEN FALSE
       ELSE Len(url.hostname) >= 2

\* validateUrlFormat of AddBookmarkModal
validateUrlFormat_Modal(urlString) ==
  IF Trim(urlString) = "" THEN FALSE
  ELSE LET url == NewURL(urlString) IN
       IF ~url.ok THEN FALSE
       ELSE IF url.protocol # "http:" /\ url.protocol # "https:" THEN FALSE
       ELSE IF Len(url.hostname) < 2 THEN FALSE
       ELSE Len(url.hostname[Len(url.hostname)]) >= 2

\* validateUrlFormat of the list view's Home
validateUrlFormat_List(urlString) ==
  IF Trim(urlString) = "" THEN FALSE
  ELSE LET url == NewURL(urlString) IN
       IF ~url.ok THEN FALSE
       ELSE IF url.protocol # "http:" /\ url.protocol # "https:" THEN FALSE
       ELSE IF Len(url.hostname) < 2 THEN FALSE
       ELSE Len(url.hostname[Len(url.hostname)]) >= 2

\* ------------------------------------------------------------------- probe
\* String.prototype.includes
Includes(s, sub) ==
  \E i \in 1..(Len(s) - Len(sub) + 1) : SubSeq(s, i, i + Len(sub) - 1) = sub

\* What a fetch meets: a response with a status, the abort of the route's 3 s timer,
\* another failure of the route's fetch (DNS, TLS, refused), or no answer from
\* /api/verify-url itself.
Response(status) == [kind |-> "response", status |-> status]
Aborted == [kind |-> "AbortError", status |-> 0]
FetchFailed == [kind |-> "TypeError", status |-> 0]
ApiDown == [kind |-> "api down", status |-> 0]
NotProbed == [kind |-> "none", status |-> 0]

Statuses == {200, 301, 399, 400, 404, 500}

\* the outcomes the flows are run with, and all of them
NetOutcomes == {Response(200), Response(404), FetchFailed}
RouteOutcomes == {Response(st) : st \in Statuses} \cup {Aborted, FetchFailed}
AllNetOutcomes == RouteOutcomes \cup {ApiDown}

\* request bodies: not JSON, JSON without a url, JSON with a url
Missing == "undefined"
Body(u) == [json |-> TRUE, url |-> u]
MalformedBody == [json |-> FALSE, url |-> Missing]
Bodies ==
  {MalformedBody, Body(Missing)} \cup
  {Body(u) : u \in {"", "not a url", "ftp://example.com", "https://example.com",
                    "http://localhost", "http://192.168.1.10",
                    "https://example.com/localhost"}}

\* the test of the route's first `if`
SkipsVerification(url) ==
  Includes(url, "localhost") \/ Includes(url, "127.0.0.1") \/ Includes(url, "192.168.")

Returned(reachable, message) ==
  [threw |-> FALSE, name |-> "", status |-> 200, reachable |-> reachable,
   message |-> message]
Thrown(name) ==
  [threw |-> TRUE, name |-> name, status |-> 500, reachable |-> FALSE, message |-> ""]

\* the try block of POST: what it returns, or the error it throws (request.json() of a
\* body that is not JSON, url.includes of a missing url, fetch of a string that is no
\* http(s) url, the abort, a failed fetch)
TryBlock(body, net) ==
  IF ~body.json THEN Thrown("SyntaxError")
  ELSE IF body.url = Missing THEN Thrown("TypeError")
  ELSE IF SkipsVerification(body.url)
  THEN Returned(TRUE, "Local URL - skipped verification")
  ELSE IF ~NewURL(body.url).ok \/ NewURL(body.url).protocol \notin {"http:", "https:"}
  THEN Thrown("TypeError")
  ELSE IF net.kind = "response"
  THEN LET reachable == net.status >= 200 /\ net.status < 400 IN
       Returned(reachable, IF reachable THEN "URL is reachable"
                           ELSE "Server returned " \o ToString(net.status))
  ELSE Thrown(net.kind)

\* the catch block of POST
CatchBlock(error) ==
  IF error.name = "AbortError"
  THEN Returned(FALSE, "Timeout - URL took too long to respond")
  ELSE Returned(FALSE, "Could not verify URL (CORS, DNS, or network error)")

\* mutant of POST_verify_url: errors other than the abort are thrown on
POST_verify_url_Rethrows(body, net) ==
  LET t == TryBlock(body, net) IN
  IF t.threw /\ t.name = "AbortError" THEN CatchBlock(t) ELSE t

\* POST /api/verify-url
POST_verify_url(body, net) ==
  LET t == TryBlock(body, net) IN
  IF t.threw THEN CatchBlock(t) ELSE t

\* whether POST gets to a fetch that can meet anything
Fetches(body) ==
  /\ body.json /\ body.url # Missing
  /\ ~SkipsVerification(body.url)
  /\ NewURL(body.url).ok /\ NewURL(body.url).protocol \in {"http:", "https:"}

\* what the HEAD request of POST met: nothing when POST returns or throws before it
RouteMet(body, net) == IF Fetches(body) THEN net ELSE NotProbed

\* the client-side wrapper: fetch('/api/verify-url'), res.json(), and its catch
verifyUrlReachable(url, net) ==
  IF net = ApiDown THEN [reachable |-> FALSE, message |-> "Verification failed"]
  ELSE LET res == POST_verify_url(Body(url), net) IN
       IF res.threw THEN [reachable |-> FALSE, message |-> "Verification failed"]
       ELSE [reachable |-> res.reachable, message |-> res.message]

\* ------------------------------------------------- the preview route
\* a || b of two strings (undefined, which attr() returns for a missing tag, is "")
OrElse(a, b) == IF a # "" THEN a ELSE b

StartsWithHttp(s) == Len(s) >= 4 /\ SubSeq(s, 1, 4) = "http"

\* new URL(url).origin
Origin(u) ==
  CASE u = "https://example.com" -> "https://example.com"
    [] u = "https://example.com/localhost" -> "https://example.com"
    [] u = "https://example.org" -> "https://example.org"
    [] OTHER -> "null"

\* new URL(ref, origin).href for a ref that starts with "/"
Resolve(ref, origin) == origin \o ref

encodeURIComponent(u) ==
  CASE u = "https://example.com" -> "https%3A%2F%2Fexample.com"
    [] u = "https://example.com/localhost" -> "https%3A%2F%2Fexample.com%2Flocalhost"
    [] u = "https://example.org" -> "https%3A%2F%2Fexample.org"
    [] OTHER -> u

\* the url of the screenshot service for a page without an image
ScreenshotUrl(u) ==
  "https://api.screenshotmachine.com/?key=YOUR_API_KEY&url=" \o encodeURIComponent(u)
    \o "&dimension=1024x768"

\* What cheerio finds in a page: the content / href of each tag the route asks for,
\* "" for a tag the page does not have.
PageOf(t, d, i, f) ==
  [ogTitle |-> t[1], twitterTitle |-> t[2], titleText |-> t[3],
   ogDescription |-> d[1], twitterDescription |-> d[2], metaDescription |-> d[3],
   ogImage |-> i[1], twitterImage |-> i[2],
   icon |-> f[1], shortcutIcon |-> f[2], appleTouchIcon |-> f[3]]

TitleTags == {"", "OG title"} \X {"", "Twitter title"} \X {"", "Example Domain"}
DescriptionTags ==
  {"", "OG description"} \X {"", "Twitter description"} \X {"", "A description"}
ImageTags == {"", "https://cdn.example.com/og.png", "/og.png"} \X {"", "/twitter.png"}
IconTags ==
  {"", "/favicon.ico"} \X {"", "https://cdn.example.com/shortcut.ico"} \X {"", "/apple.png"}

NoTags3 == <<"", "", "">>
NoTags2 == <<"", "">>

\* the pages fetched: every combination of title and image tags, and every combination
\* of description and icon tags
Pages ==
  {PageOf(t, NoTags3, i, NoTags3) : t \in TitleTags, i \in ImageTags} \cup
  {PageOf(NoTags3, d, NoTags2, f) : d \in DescriptionTags, f \in IconTags}

PreviewBodies == {MalformedBody, Body(Missing), Body(""), Body("not a url"),
                  Body("https://example.com")}
PreviewOutcomes == {Response(200), Response(404), Response(500), Aborted, FetchFailed}

PreviewError(status, error) == [status |-> status, error |-> error]

\* `if (!previewData.image) previewData.image = <screenshot url>`
ImageOrScreenshot(image, u) == IF image = "" THEN ScreenshotUrl(u) ELSE image

\* `if (x && !x.startsWith('http')) x = new URL(x, urlObj.origin).href`
ResolveRelative(x, u) ==
  IF x # "" /\ ~StartsWithHttp(x) THEN Resolve(x, Origin(u)) ELSE x

\* previewData as the route builds it from the page
previewData(page, u) ==
  [status |-> 200,
   title |-> OrElse(page.ogTitle, OrElse(page.twitterTitle, OrElse(page.titleText, ""))),
   description |-> OrElse(page.ogDescription,
                          OrElse(page.twitterDescription,
                                 OrElse(page.metaDescription, ""))),
   image |-> ImageOrScreenshot(ResolveRelative(OrElse(page.ogImage,
                                                      OrElse(page.twitterImage, "")), u), u),
   favicon |-> ResolveRelative(OrElse(page.icon,
                                      OrElse(page.shortcutIcon,
                                             OrElse(page.appleTouchIcon, ""))), u)]

\* POST of /api/fetch-preview
POST_fetch_preview(body, page, net) ==
  IF ~body.json THEN PreviewError(500, "Failed to fetch preview data")
  ELSE IF body.url = Missing \/ body.url = "" THEN PreviewError(400, "URL required")
  ELSE IF ~NewURL(body.url).ok THEN PreviewError(500, "Failed to fetch preview data")
  ELSE IF net = Aborted THEN PreviewError(408, "Timeout - page took too long to load")
  ELSE IF net = FetchFailed THEN PreviewError(500, "Failed to fetch preview data")
  ELSE IF ~(net.status >= 200 /\ net.status <= 299)
  THEN PreviewError(400, "Failed to fetch: " \o ToString(net.status))
  ELSE previewData(page, body.url)

\* a page with none of the tags
NoPage == PageOf(NoTags3, NoTags3, NoTags2, NoTags3)

\* no row's flag has been written
NeverProbed == [i \in 1..MaxId |-> ""]

NoPreview == [body |-> MalformedBody, page |-> NoPage,
              net |-> NotProbed, res |-> PreviewError(0, "")]

\* ------------------------------------------------------------------- state
Owner == "u1"
Other == "u2"

VARIABLES
  variant,        \* "list" or "carousel": which Home is mounted
  navigated,      \* window.location.href = '/login' was assigned
  store,          \* the owner's rows of table bookmarks: id -> row
  nextId,         \* the next identity value of the table
  userId,         \* Home state
  items,          \* Home state: the in-memory list
  strictMode,     \* Home state
  verifying,      \* Home state
  toast,          \* Home state
  timers,         \* pending setTimeout(() => setToast(null), 4000) callbacks
  title, url,     \* the add form (Home state in the list view, modal state in the carousel view)
  urlError,       \* Home state
  addModalOpen,   \* Home state (carousel view)
  commandOpen,    \* Home state (carousel view)
  editing,        \* editingId / editingBookmark.id, 0 for null
  editModalOpen,  \* Home state (carousel view)
  editTitle, editUrl, editUrlError,
  effects,        \* the runs of the auth + realtime effect
  inbox,          \* per effect run: events sent to its channel and not yet handled
  loads,          \* outstanding load() calls
  logged,         \* the payload of the last console.log('Realtime event:', payload)
  selectedIndex,  \* Home state (carousel view): the selection cursor
  darkMode,       \* Home state
  localStorage,   \* the browser profile's localStorage: key -> stored string
  storageInbox,   \* 'storage' events queued for this view's window
  peer,           \* a second view of the same profile: its flags and its queued events
  toggled,        \* the last toggle of a flag: which view, which key, the new value
  served,         \* the last request POST /api/verify-url answered from another client
  previewed,      \* the last request POST /api/fetch-preview answered
  probedUrl,      \* history, no column of the table: per row id, the url whose probe
                  \* produced the row's verified flag ("" while none has)
  tasks           \* outstanding add / edit / delete / verification flows

vars == <<variant, navigated, store, nextId, userId, items, strictMode, verifying,
          toast, timers, title, url, urlError, addModalOpen, commandOpen, editing,
          editModalOpen, editTitle, editUrl, editUrlError, effects, inbox, loads,
          logged, selectedIndex, darkMode, localStorage, storageInbox, peer, toggled,
          served, previewed, probedUrl, tasks>>

formVars == <<title, url, urlError, addModalOpen>>
editVars == <<editing, editModalOpen, editTitle, editUrl, editUrlError>>
storeVars == <<store, nextId>>
prefVars == <<darkMode, localStorage, storageInbox, peer, toggled>>

NoToast == [message |-> "", type |-> "none"]

\* ------------------------------------------------------------------ helpers
SetMax(S) == CHOOSE x \in S : \A y \in S : y <= x

\* .select('*').order('created_at', { ascending: false }): ids grow with created_at
RECURSIVE SelectAll(_, _)
SelectAll(st, ids) ==
  IF ids = {} THEN <<>>
  ELSE LET i == SetMax(ids) IN
       <<[id |-> i, user_id |-> Owner, url |-> st[i].url, title |-> st[i].title,
          verified |-> st[i].verified,
          verification_message |-> st[i].verification_message,
          verified_at |-> st[i].verified_at]>>
       \o SelectAll(st, ids \ {i})

RemoveAt(s, i) == SubSeq(s, 1, i - 1) \o SubSeq(s, i + 1, Len(s))

ItemIds == {items[k].id : k \in 1..Len(items)}
ItemOf(i) == items[CHOOSE k \in 1..Len(items) : items[k].id = i]

Mounted == \E e \in 1..Len(effects) : ~effects[e].cleaned
OpenChannels == {e \in 1..Len(effects) : effects[e].channel = "subscribed"}

\* A row change reaches every subscribed channel.
Publish(ev) == [e \in DOMAIN inbox |->
                  IF e \in OpenChannels THEN Append(inbox[e], ev) ELSE inbox[e]]
CanPublish == \A e \in OpenChannels : Len(inbox[e]) < MaxInbox

Event(type, uid, i) == [eventType |-> type, user_id |-> uid, id |-> i]
NoEvent == Event("", "", 0)

\* mutant of ShowToast: no timer is started
ShowToast_NoTimer(message, type) ==
  /\ timers < MaxTimers
  /\ toast' = [message |-> message, type |-> type]
  /\ UNCHANGED timers

\* showToast: the new toast replaces the old one and a timer is started
ShowToast(message, type) ==
  /\ timers < MaxTimers
  /\ toast' = [message |-> message, type |-> type]
  /\ timers' = timers + 1

\* a timer started by showToast fires: setToast(null)
ToastTimeout ==
  /\ ~navigated
  /\ timers > 0
  /\ timers' = timers - 1
  /\ toast' = NoToast
  /\ UNCHANGED <<served, previewed, probedUrl, logged, selectedIndex, prefVars, variant, navigated, store, nextId, userId, items, strictMode,
                 verifying, title, url, urlError, addModalOpen, commandOpen,
                 editing, editModalOpen, editTitle, editUrl, editUrlError,
                 effects, inbox, loads, tasks>>

\* ------------------------------------------------------ local preferences
PrefKeys == {"darkMode", "strictMode"}

\* localStorage.getItem of a key that was never set
NoItem == "null"

\* String(next)
StringOf(b) == IF b THEN "true" ELSE "false"

StorageEvent(key, newValue) == [key |-> key, newValue |-> newValue]

NoToggle == [view |-> 0, key |-> "", value |-> FALSE]

\* handleStorage, for the flag stored under key: the flag after event e
handleStorage(flag, key, e) ==
  IF e.key = key /\ e.newValue # "" THEN e.newValue = "true" ELSE flag

\* the storage effect at mount: `if (stored) setFlag(stored === 'true')`
StoredOr(flag, key) ==
  IF localStorage[key] # NoItem THEN localStorage[key] = "true" ELSE flag

\* Storage.setItem(key, value) notifies the other documents of the profile only if
\* it changes the stored value
SetItemNotifies(key, value) == localStorage[key] # value

\* toggleDarkMode / toggleStrictMode of this view, for the flag under key: setItem,
\* the browser's 'storage' event for the other view, and the toggle is noted
ToggleFlag(key, next) ==
  /\ localStorage' = [localStorage EXCEPT ![key] = StringOf(next)]
  /\ IF peer.open /\ SetItemNotifies(key, StringOf(next))
     THEN /\ Len(peer.inbox) < MaxStorageEvents
          /\ peer' = [peer EXCEPT !.inbox = Append(@, StorageEvent(key, StringOf(next)))]
     ELSE UNCHANGED peer
  /\ toggled' = [view |-> 1, key |-> key, value |-> next]
  /\ UNCHANGED storageInbox

\* ------------------------------------------------- auth + realtime effect
\* React runs the effects of Home: the storage effect reads the two stored flags, and the
\* auth + realtime effect does `let channel = null`, then init() up to its first await.
RunEffect ==
  /\ ~navigated
  /\ ~Mounted
  /\ Len(effects) < MaxMounts
  /\ darkMode' = StoredOr(darkMode, "darkMode")
  /\ strictMode' = StoredOr(strictMode, "strictMode")
  /\ effects' = Append(effects, [pc |-> "getUser", channel |-> "null", cleaned |-> FALSE])
  /\ inbox' = Append(inbox, <<>>)
  /\ UNCHANGED <<served, previewed, probedUrl, logged, selectedIndex, localStorage, storageInbox, peer, toggled, variant,
                 navigated, storeVars, userId, items, verifying, toast, timers, formVars,
                 commandOpen, editVars, loads, tasks>>

\* The function the effect returned runs (unmount, or before the effect runs again):
\* if (channel) supabase.removeChannel(channel)
Cleanup(e) ==
  /\ ~navigated
  /\ e \in 1..Len(effects)
  /\ ~effects[e].cleaned
  /\ effects' = [effects EXCEPT ![e].cleaned = TRUE,
                                ![e].channel = IF @ = "subscribed" THEN "removed" ELSE @]
  /\ inbox' = [inbox EXCEPT ![e] = <<>>]
  /\ UNCHANGED <<served, previewed, probedUrl, logged, selectedIndex, prefVars, variant, navigated, storeVars, userId, items, strictMode, verifying,
                 toast, timers, formVars, commandOpen, editVars, loads, tasks>>

\* load() up to its await: the select is sent
NewLoad(waiter) == [phase |-> "req", data |-> <<>>, error |-> FALSE, waiter |-> waiter]

\* supabase.auth.getUser() resolves and init() goes on to `await load()`
GetUserReturn(e, ok) ==
  /\ ~navigated
  /\ e \in 1..Len(effects)
  /\ effects[e].pc = "getUser"
  /\ IF ~ok
     THEN /\ navigated' = TRUE
          /\ effects' = [effects EXCEPT ![e].pc = "redirect"]
          /\ UNCHANGED <<userId, loads>>
     ELSE /\ Len(loads) < MaxLoads
          /\ userId' = Owner
          /\ loads' = Append(loads, NewLoad(e))
          /\ effects' = [effects EXCEPT ![e].pc = "load"]
          /\ UNCHANGED navigated
  /\ UNCHANGED <<served, previewed, probedUrl, logged, selectedIndex, prefVars, variant, storeVars, items, strictMode, verifying, toast, timers,
                 formVars, commandOpen, editVars, inbox, tasks>>

\* The store answers a select: the rows as they are now, or an error.
ServerSelect(k, err) ==
  /\ ~navigated
  /\ k \in 1..Len(loads)
  /\ loads[k].phase = "req"
  /\ loads' = [loads EXCEPT ![k].phase = "resp",
                            ![k].error = err,
                            ![k].data = IF err THEN <<>> ELSE SelectAll(store, DOMAIN store)]
  /\ UNCHANGED <<served, previewed, probedUrl, logged, selectedIndex, prefVars, variant, navigated, storeVars, userId, items, strictMode, verifying,
                 toast, timers, formVars, commandOpen, editVars, effects, inbox, tasks>>

\* mutant of ItemsAfterLoad: a failed load empties the list
ItemsAfterLoad_ClearsOnError(prev, l) == IF l.error THEN <<>> ELSE l.data

\* load() after its await: `if (error) { showToast(...); return }`, else setItems(data)
ItemsAfterLoad(prev, l) == IF l.error THEN prev ELSE l.data

\* The rest of load() after its await, and, for the load() that init() awaits, the rest
\* of init(): the channel is created and subscribed.
LoadReturn(k) ==
  /\ ~navigated
  /\ k \in 1..Len(loads)
  /\ loads[k].phase = "resp"
  /\ IF loads[k].error
     THEN ShowToast("Error loading bookmarks", "error")
     ELSE UNCHANGED <<toast, timers>>
  /\ items' = ItemsAfterLoad(items, loads[k])
  /\ loads' = RemoveAt(loads, k)
  /\ IF loads[k].waiter # 0
     THEN effects' = [effects EXCEPT ![loads[k].waiter].pc = "done",
                                     ![loads[k].waiter].channel = "subscribed"]
     ELSE UNCHANGED effects
  /\ UNCHANGED <<served, previewed, probedUrl, logged, selectedIndex, prefVars, variant, navigated, storeVars, userId, strictMode, verifying,
                 formVars, commandOpen, editVars, inbox, tasks>>

\* ------------------------------------------------------------ change feed
\* mutant of HandlerLoads: the handler of README "Problem 1", with no owner test
HandlerLoads_NoFilter(payload, currentUserId) ==
  payload.eventType \in {"INSERT", "UPDATE", "DELETE"}

\* mutant of HandlerLoads: DELETE events are filtered by owner as well
HandlerLoads_FilterAll(payload, currentUserId) ==
  payload.user_id = currentUserId

\* the postgres_changes handler: does it call load()?
HandlerLoads(payload, currentUserId) ==
  IF payload.eventType = "INSERT" \/ payload.eventType = "UPDATE"
  THEN payload.user_id = currentUserId
  ELSE payload.eventType = "DELETE"

\* One event is handed to the handler of channel e.
Deliver(e) ==
  /\ ~navigated
  /\ e \in OpenChannels
  /\ inbox[e] # <<>>
  /\ inbox' = [inbox EXCEPT ![e] = Tail(@)]
  /\ logged' = Head(inbox[e])
  /\ IF HandlerLoads(Head(inbox[e]), Owner)
     THEN /\ Len(loads) < MaxLoads
          /\ loads' = Append(loads, NewLoad(0))
     ELSE UNCHANGED loads
  /\ UNCHANGED <<served, previewed, probedUrl, selectedIndex, prefVars, variant, navigated, storeVars, userId, items, strictMode, verifying,
                 toast, timers, formVars, commandOpen, editVars, effects, tasks>>

\* A change of a row that is not the owner's reaches the channels: the subscription
\* is to event '*' of the whole table.
ForeignEvent(type, uid) ==
  /\ ~navigated
  /\ OpenChannels # {}
  /\ CanPublish
  /\ type = "DELETE" => uid = Missing
  /\ inbox' = Publish(Event(type, uid, 0))
  /\ UNCHANGED <<served, previewed, probedUrl, logged, selectedIndex, prefVars, variant, navigated, storeVars, userId, items, strictMode, verifying,
                 toast, timers, formVars, commandOpen, editVars, effects, loads, tasks>>

\* -------------------------------------------------------------- the forms
\* validateUrlFormat as the Home of the running view calls it
HomeValidateUrlFormat(u) ==
  IF variant = "list" THEN validateUrlFormat_List(u) ELSE validateUrlFormat(u)

\* the effect on [url]: the add form's format error
UrlErrorFor(u) ==
  IF Trim(u) = "" THEN ""
  ELSE IF (IF variant = "list" THEN validateUrlFormat_List(u) ELSE validateUrlFormat_Modal(u))
  THEN ""
  ELSE "Invalid URL format (must start with http:// or https://)"

\* the effect on [editUrl]
EditUrlErrorFor(u) ==
  IF Trim(u) = "" THEN ""
  ELSE IF HomeValidateUrlFormat(u) THEN ""
  ELSE "Invalid URL format"

\* the add button's `disabled`, and handleSubmit's first line in the modal
AddDisabled == Trim(title) = "" \/ Trim(url) = "" \/ urlError # "" \/ verifying

\* mutant of SaveDisabled: the title is not looked at
SaveDisabled_NoTitle == editUrlError # "" \/ Trim(editUrl) = "" \/ verifying

\* the save button's `disabled`
SaveDisabled ==
  editUrlError # "" \/ Trim(editTitle) = "" \/ Trim(editUrl) = "" \/ verifying

AddFormShown == variant = "carousel" => addModalOpen
EditFormShown == editing # 0 /\ (variant = "carousel" => editModalOpen)

UserCanAct == ~navigated /\ Mounted

\* onChange of the title input
TypeTitle(t) ==
  /\ UserCanAct /\ AddFormShown
  /\ t # title
  /\ title' = t
  /\ UNCHANGED <<served, previewed, probedUrl, logged, selectedIndex, prefVars, variant, navigated, storeVars, userId, items, strictMode, verifying,
                 toast, timers, url, urlError, addModalOpen, commandOpen, editVars,
                 effects, inbox, loads, tasks>>

\* onChange of the url input (disabled while verifying), with the effect on [url]
TypeUrl(u) ==
  /\ UserCanAct /\ AddFormShown
  /\ ~verifying
  /\ u # url
  /\ url' = u
  /\ urlError' = UrlErrorFor(u)
  /\ UNCHANGED <<served, previewed, probedUrl, logged, selectedIndex, prefVars, variant, navigated, storeVars, userId, items, strictMode, verifying,
                 toast, timers, title, addModalOpen, commandOpen, editVars,
                 effects, inbox, loads, tasks>>

\* Ctrl+N / the add button of the header
OpenAddModal ==
  /\ UserCanAct
  /\ variant = "carousel"
  /\ ~addModalOpen
  /\ addModalOpen' = TRUE
  /\ UNCHANGED <<served, previewed, probedUrl, logged, selectedIndex, prefVars, variant, navigated, storeVars, userId, items, strictMode, verifying,
                 toast, timers, title, url, urlError, commandOpen, editVars,
                 effects, inbox, loads, tasks>>

\* onClose of the modal, with the modal's effect on [open]
CloseAddModal ==
  /\ UserCanAct
  /\ variant = "carousel"
  /\ addModalOpen
  /\ addModalOpen' = FALSE
  /\ title' = "" /\ url' = "" /\ urlError' = ""
  /\ UNCHANGED <<served, previewed, probedUrl, logged, selectedIndex, prefVars, variant, navigated, storeVars, userId, items, strictMode, verifying,
                 toast, timers, commandOpen, editVars, effects, inbox, loads, tasks>>

\* the '/' key, and onClose of the palette
OpenPalette ==
  /\ UserCanAct
  /\ variant = "carousel"
  /\ ~commandOpen
  /\ commandOpen' = TRUE
  /\ UNCHANGED <<served, previewed, probedUrl, logged, selectedIndex, prefVars, variant, navigated, storeVars, userId, items, strictMode, verifying,
                 toast, timers, formVars, editVars, effects, inbox, loads, tasks>>

ClosePalette ==
  /\ UserCanAct
  /\ variant = "carousel"
  /\ commandOpen
  /\ commandOpen' = FALSE
  /\ UNCHANGED <<served, previewed, probedUrl, logged, selectedIndex, prefVars, variant, navigated, storeVars, userId, items, strictMode, verifying,
                 toast, timers, formVars, editVars, effects, inbox, loads, tasks>>

\* the checkbox of the settings panel
ToggleStrictMode ==
  /\ UserCanAct
  /\ LET next == ~strictMode IN
     /\ strictMode' = handleStorage(next, "strictMode",
                                    StorageEvent("strictMode", StringOf(next)))
     /\ ToggleFlag("strictMode", next)
  /\ ShowToast(IF strictMode THEN "Strict mode disabled" ELSE "Strict mode enabled",
               "success")
  /\ UNCHANGED <<served, previewed, probedUrl, logged, selectedIndex, darkMode, variant, navigated, storeVars, userId,
                 items, verifying, formVars, commandOpen, editVars, effects, inbox, loads,
                 tasks>>

\* the theme button
ToggleDarkMode ==
  /\ UserCanAct
  /\ LET next == ~darkMode IN
     /\ darkMode' = handleStorage(next, "darkMode", StorageEvent("darkMode", StringOf(next)))
     /\ ToggleFlag("darkMode", next)
  /\ UNCHANGED <<served, previewed, probedUrl, logged, selectedIndex, strictMode, variant, navigated, storeVars, userId,
                 items, verifying, toast, timers, formVars, commandOpen, editVars, effects,
                 inbox, loads, tasks>>

\* this view's window gets a 'storage' event of the other view: handleStorage
HandleStorage ==
  /\ UserCanAct
  /\ storageInbox # <<>>
  /\ darkMode' = handleStorage(darkMode, "darkMode", Head(storageInbox))
  /\ strictMode' = handleStorage(strictMode, "strictMode", Head(storageInbox))
  /\ storageInbox' = Tail(storageInbox)
  /\ UNCHANGED <<served, previewed, probedUrl, logged, selectedIndex, localStorage, peer, toggled, variant, navigated,
                 storeVars, userId, items, verifying, toast, timers, formVars, commandOpen,
                 editVars, effects, inbox, loads, tasks>>

\* the same Home is opened in a second tab of the profile: its flags start false and
\* its storage effect reads the stored ones
OpenPeer ==
  /\ ~peer.open
  /\ peer' = [open |-> TRUE, darkMode |-> StoredOr(FALSE, "darkMode"),
              strictMode |-> StoredOr(FALSE, "strictMode"), inbox |-> <<>>]
  /\ UNCHANGED <<served, previewed, probedUrl, logged, selectedIndex, darkMode, localStorage, storageInbox, toggled,
                 variant, navigated, storeVars, userId, items, strictMode, verifying, toast,
                 timers, formVars, commandOpen, editVars, effects, inbox, loads, tasks>>

\* toggleDarkMode / toggleStrictMode in the second view
PeerToggle(key) ==
  /\ peer.open
  /\ LET next == ~peer[key] IN
     /\ peer' = [peer EXCEPT ![key] = handleStorage(next, key,
                                                    StorageEvent(key, StringOf(next)))]
     /\ localStorage' = [localStorage EXCEPT ![key] = StringOf(next)]
     /\ IF UserCanAct /\ SetItemNotifies(key, StringOf(next))
        THEN /\ Len(storageInbox) < MaxStorageEvents
             /\ storageInbox' = Append(storageInbox, StorageEvent(key, StringOf(next)))
        ELSE UNCHANGED storageInbox
     /\ toggled' = [view |-> 2, key |-> key, value |-> next]
  /\ UNCHANGED <<served, previewed, probedUrl, logged, selectedIndex, darkMode, variant, navigated, storeVars, userId,
                 items, strictMode, verifying, toast, timers, formVars, commandOpen,
                 editVars, effects, inbox, loads, tasks>>

\* the second view's window gets a 'storage' event of this view: handleStorage
PeerHandleStorage ==
  /\ peer.open
  /\ peer.inbox # <<>>
  /\ peer' = [peer EXCEPT !.darkMode = handleStorage(@, "darkMode", Head(peer.inbox)),
                          !.strictMode = handleStorage(@, "strictMode", Head(peer.inbox)),
                          !.inbox = Tail(@)]
  /\ UNCHANGED <<served, previewed, probedUrl, logged, selectedIndex, darkMode, localStorage, storageInbox, toggled,
                 variant, navigated, storeVars, userId, items, strictMode, verifying, toast,
                 timers, formVars, commandOpen, editVars, effects, inbox, loads, tasks>>

\* --------------------------------------------------------------- the cursor
\* mutant of rotateCarousel: no wrap at either end
rotateCarousel_NoWrap(direction, prev, n) ==
  IF direction = "left" THEN prev - 1 ELSE prev + 1

\* the updater rotateCarousel hands to setSelectedIndex; n is items.length
rotateCarousel(direction, prev, n) ==
  IF direction = "left"
  THEN IF prev = 0 THEN n - 1 ELSE prev - 1
  ELSE IF prev = n - 1 THEN 0 ELSE prev + 1

\* ArrowLeft / ArrowRight with no palette or modal open, and the carousel's buttons
Rotate(direction) ==
  /\ UserCanAct
  /\ variant = "carousel"
  /\ ~commandOpen /\ ~addModalOpen /\ ~editModalOpen
  /\ selectedIndex' = rotateCarousel(direction, selectedIndex, Len(items))
  /\ selectedIndex' \in (0 - MaxCursor)..MaxCursor
  /\ UNCHANGED <<served, previewed, probedUrl, logged, prefVars, variant, navigated, storeVars, userId, items, strictMode,
                 verifying, toast, timers, formVars, commandOpen, editVars, effects, inbox,
                 loads, tasks>>

\* ------------------------------------------------------- the route, called
\* a request to the route from a client other than the view, and its answer
NoCall == [body |-> MalformedBody, met |-> NotProbed, res |-> Thrown("none")]
ServeVerifyUrl(body, net) ==
  /\ served' = [body |-> body, met |-> RouteMet(body, net), res |-> POST_verify_url(body, net)]
  /\ UNCHANGED <<variant, navigated, store, nextId, userId, items, strictMode, verifying,
                 toast, timers, title, url, urlError, addModalOpen, commandOpen, editing,
                 editModalOpen, editTitle, editUrl, editUrlError, effects, inbox, loads,
                 logged, selectedIndex, darkMode, localStorage, storageInbox, peer, toggled,
                 previewed, probedUrl, tasks>>

\* POST /api/fetch-preview is called with a body, the fetch of the page meeting net
ServeFetchPreview(body, page, net) ==
  /\ previewed' = [body |-> body, page |-> page, net |-> net,
                   res |-> POST_fetch_preview(body, page, net)]
  /\ UNCHANGED <<variant, navigated, store, nextId, userId, items, strictMode, verifying,
                 toast, timers, title, url, urlError, addModalOpen, commandOpen, editing,
                 editModalOpen, editTitle, editUrl, editUrlError, effects, inbox, loads,
                 logged, selectedIndex, darkMode, localStorage, storageInbox, peer, toggled,
                 served, probedUrl, tasks>>

\* ---------------------------------------------------------------- flows
Task(kind, pc, i, t, u, strict, prompt) ==
  [kind |-> kind, pc |-> pc, id |-> i, title |-> t, url |-> u, strict |-> strict,
   reachable |-> FALSE, message |-> "", met |-> NotProbed, prompt |-> prompt]

\* what a probe through the wrapper met: no answer from the route, or what the route's
\* HEAD request met
Met(u, net) == IF net = ApiDown THEN ApiDown ELSE RouteMet(Body(u), net)

NoPrompt == "<no prompt>"

\* mutant of ProbeBlocks: an unreachable url does not stop the flow
ProbeBlocks_Never(result) == FALSE

\* mutant of ProbeBlocks: only a confirmed-unreachable answer stops the flow
ProbeBlocks_OnlyConfirmed(result) ==
  ~result.reachable /\ result.message # "Could not verify URL (CORS, DNS, or network error)"

\* `if (!reachable) { ...; return }` after the blocking probe
ProbeBlocks(result) == ~result.reachable

\* mutant of SchedulesBackgroundProbe: the probe is scheduled in both modes
SchedulesBackgroundProbe_Always(strict) == TRUE

\* mutant of SchedulesBackgroundProbe: no background probe
SchedulesBackgroundProbe_Never(strict) == FALSE

\* `if (!strictMode) verifyUrlReachable(url).then(...)` after a successful write
SchedulesBackgroundProbe(strict) == ~strict

\* handleSubmit of the modal after `await onAdd(title, url)`: setTitle(''), setUrl(''),
\* and the effect on [url] when that changes url
AfterSubmitUrlError(err) == IF variant = "carousel" /\ url # "" THEN "" ELSE err

\* the click on the add button / the submit of the modal's form: addBookmark up to its
\* first await
ClickAdd ==
  /\ UserCanAct /\ AddFormShown
  /\ ~AddDisabled
  /\ IF Trim(title) = "" \/ Trim(url) = ""
     THEN /\ ShowToast("Title and URL required", "warning")
          /\ title' = IF variant = "carousel" THEN "" ELSE title
          /\ url' = IF variant = "carousel" THEN "" ELSE url
          /\ urlError' = AfterSubmitUrlError(urlError)
          /\ UNCHANGED <<verifying, tasks>>
     ELSE IF ~HomeValidateUrlFormat(url)
     THEN /\ ShowToast("Invalid URL format", "error")
          /\ title' = IF variant = "carousel" THEN "" ELSE title
          /\ url' = IF variant = "carousel" THEN "" ELSE url
          /\ urlError' = AfterSubmitUrlError(urlError)
          /\ UNCHANGED <<verifying, tasks>>
     ELSE /\ Len(tasks) < MaxTasks
          /\ verifying' = (strictMode \/ verifying)
          /\ tasks' = Append(tasks, Task("add", IF strictMode THEN "probe" ELSE "write",
                                         0, title, url, strictMode, NoPrompt))
          /\ UNCHANGED <<toast, timers, title, url, urlError>>
  /\ UNCHANGED <<served, previewed, probedUrl, logged, selectedIndex, prefVars, variant, navigated, storeVars, userId, items, strictMode,
                 addModalOpen, commandOpen, editVars, effects, inbox, loads>>

\* mutant of VerifyingAfterProbe: the flag is cleared only when the url was reachable
VerifyingAfterProbe_OnlyOnSuccess(prev, result) == IF result.reachable THEN FALSE ELSE prev

\* setVerifying(false), the statement after `await verifyUrlReachable(...)` and before
\* `if (!result.reachable)`
VerifyingAfterProbe(prev, result) == FALSE

\* the blocking probe of an add returns
AddProbeReturn(k, net) ==
  /\ ~navigated
  /\ k \in 1..Len(tasks)
  /\ tasks[k].kind = "add" /\ tasks[k].pc = "probe"
  /\ LET r == verifyUrlReachable(tasks[k].url, net) IN
     /\ verifying' = VerifyingAfterProbe(verifying, r)
     /\ IF ProbeBlocks(r)
        THEN /\ ShowToast("URL verification failed: " \o r.message, "error")
             /\ urlError' = AfterSubmitUrlError("URL may not be reachable: " \o r.message)
             /\ title' = IF variant = "carousel" THEN "" ELSE title
             /\ url' = IF variant = "carousel" THEN "" ELSE url
             /\ tasks' = RemoveAt(tasks, k)
        ELSE /\ tasks' = [tasks EXCEPT ![k].pc = "write", ![k].reachable = r.reachable,
                                       ![k].message = r.message,
                                       ![k].met = Met(tasks[k].url, net)]
             /\ UNCHANGED <<toast, timers, title, url, urlError>>
  /\ UNCHANGED <<served, previewed, probedUrl, logged, selectedIndex, prefVars, variant, navigated, storeVars, userId, items, strictMode,
                 addModalOpen, commandOpen, editVars, effects, inbox, loads>>

NewRow(t, u) ==
  [url |-> u, title |-> t, verified |-> "null", verification_message |-> "",
   verified_at |-> "null"]

\* the error of a refused insert or update
StoreError == [message |-> "new row violates row-level security policy"]

\* mutant of StoreErrorToast: the store's message is left out
StoreErrorToast_Generic(what, error) == "Error " \o what \o " bookmark"

\* `Error adding bookmark: ${error.message}`, `Error updating bookmark: ${error.message}`
StoreErrorToast(what, error) == "Error " \o what \o " bookmark: " \o error.message

\* the insert of an add returns: the row is stored (or the store refuses), then the rest
\* of addBookmark, then the rest of handleSubmit
AddInsertReturn(k, ok) ==
  /\ ~navigated
  /\ k \in 1..Len(tasks)
  /\ tasks[k].kind = "add" /\ tasks[k].pc = "write"
  /\ IF ok
     THEN /\ nextId <= MaxId
          /\ CanPublish
          /\ store' = [i \in DOMAIN store \cup {nextId} |->
                         IF i = nextId THEN NewRow(tasks[k].title, tasks[k].url)
                         ELSE store[i]]
          /\ nextId' = nextId + 1
          /\ inbox' = Publish(Event("INSERT", Owner, nextId))
          /\ ShowToast("Bookmark added successfully", "success")
          /\ title' = "" /\ url' = "" /\ urlError' = ""
          /\ addModalOpen' = FALSE
          /\ tasks' = IF SchedulesBackgroundProbe(tasks[k].strict)
                      THEN [tasks EXCEPT ![k] = Task("verify", "probe", nextId, "",
                                                     tasks[k].url, tasks[k].strict, NoPrompt)]
                      ELSE RemoveAt(tasks, k)
     ELSE /\ ShowToast(StoreErrorToast("adding", StoreError), "error")
          /\ title' = IF variant = "carousel" THEN "" ELSE title
          /\ url' = IF variant = "carousel" THEN "" ELSE url
          /\ urlError' = AfterSubmitUrlError(urlError)
          /\ tasks' = RemoveAt(tasks, k)
          /\ UNCHANGED <<storeVars, inbox, addModalOpen>>
  /\ UNCHANGED <<served, previewed, probedUrl, logged, selectedIndex, prefVars, variant, navigated, userId, items, strictMode, verifying,
                 commandOpen, editVars, effects, loads>>

\* startEdit(b), from a card of the list / carousel, with the effect on [editUrl]
StartEdit(i) ==
  /\ UserCanAct
  /\ i \in ItemIds
  /\ editing' = i
  /\ editTitle' = ItemOf(i).title
  /\ editUrl' = ItemOf(i).url
  /\ editUrlError' = IF ItemOf(i).url # editUrl THEN EditUrlErrorFor(ItemOf(i).url) ELSE ""
  /\ editModalOpen' = (variant = "carousel")
  /\ UNCHANGED <<served, previewed, probedUrl, logged, selectedIndex, prefVars, variant, navigated, storeVars, userId, items, strictMode, verifying,
                 toast, timers, formVars, commandOpen, effects, inbox, loads, tasks>>

\* the edit button of a palette row: onEdit(bookmark); onClose()
PaletteEdit(i) ==
  /\ UserCanAct
  /\ variant = "carousel" /\ commandOpen
  /\ i \in ItemIds
  /\ editing' = i
  /\ editTitle' = ItemOf(i).title
  /\ editUrl' = ItemOf(i).url
  /\ editUrlError' = IF ItemOf(i).url # editUrl THEN EditUrlErrorFor(ItemOf(i).url) ELSE ""
  /\ editModalOpen' = TRUE
  /\ commandOpen' = FALSE
  /\ UNCHANGED <<served, previewed, probedUrl, logged, selectedIndex, prefVars, variant, navigated, storeVars, userId, items, strictMode, verifying,
                 toast, timers, formVars, effects, inbox, loads, tasks>>

\* onChange of the edit title input
TypeEditTitle(t) ==
  /\ UserCanAct /\ EditFormShown
  /\ t # editTitle
  /\ editTitle' = t
  /\ UNCHANGED <<served, previewed, probedUrl, logged, selectedIndex, prefVars, variant, navigated, storeVars, userId, items, strictMode, verifying,
                 toast, timers, formVars, commandOpen, editing, editModalOpen, editUrl,
                 editUrlError, effects, inbox, loads, tasks>>

\* onChange of the edit url input (disabled while verifying), with the effect on [editUrl]
TypeEditUrl(u) ==
  /\ UserCanAct /\ EditFormShown
  /\ ~verifying
  /\ u # editUrl
  /\ editUrl' = u
  /\ editUrlError' = EditUrlErrorFor(u)
  /\ UNCHANGED <<served, previewed, probedUrl, logged, selectedIndex, prefVars, variant, navigated, storeVars, userId, items, strictMode, verifying,
                 toast, timers, formVars, commandOpen, editing, editModalOpen, editTitle,
                 effects, inbox, loads, tasks>>

\* the cancel button: list view setEditingId(null); setEditUrlError('') (disabled while
\* verifying), carousel view setEditModalOpen(false)
CancelEdit ==
  /\ UserCanAct /\ EditFormShown
  /\ IF variant = "list"
     THEN /\ ~verifying
          /\ editing' = 0
          /\ editUrlError' = ""
          /\ UNCHANGED editModalOpen
     ELSE /\ editModalOpen' = FALSE
          /\ UNCHANGED <<editing, editUrlError>>
  /\ UNCHANGED <<served, previewed, probedUrl, logged, selectedIndex, prefVars, variant, navigated, storeVars, userId, items, strictMode, verifying,
                 toast, timers, formVars, commandOpen, editTitle, editUrl,
                 effects, inbox, loads, tasks>>

\* the click on the save button: saveEdit up to its first await
ClickSave ==
  /\ UserCanAct /\ EditFormShown
  /\ ~SaveDisabled
  /\ IF ~HomeValidateUrlFormat(editUrl)
     THEN /\ ShowToast("Invalid URL format", "error")
          /\ UNCHANGED <<verifying, tasks>>
     ELSE /\ Len(tasks) < MaxTasks
          /\ verifying' = (strictMode \/ verifying)
          /\ tasks' = Append(tasks, Task("edit", IF strictMode THEN "probe" ELSE "write",
                                         editing, editTitle, editUrl, strictMode, NoPrompt))
          /\ UNCHANGED <<toast, timers>>
  /\ UNCHANGED <<served, previewed, probedUrl, logged, selectedIndex, prefVars, variant, navigated, storeVars, userId, items, strictMode, formVars,
                 commandOpen, editVars, effects, inbox, loads>>

\* the blocking probe of an edit returns
EditProbeReturn(k, net) ==
  /\ ~navigated
  /\ k \in 1..Len(tasks)
  /\ tasks[k].kind = "edit" /\ tasks[k].pc = "probe"
  /\ LET r == verifyUrlReachable(tasks[k].url, net) IN
     /\ verifying' = VerifyingAfterProbe(verifying, r)
     /\ IF ProbeBlocks(r)
        THEN /\ ShowToast("URL verification failed: " \o r.message, "error")
             /\ editUrlError' = "URL may not be reachable: " \o r.message
             /\ tasks' = RemoveAt(tasks, k)
        ELSE /\ tasks' = [tasks EXCEPT ![k].pc = "write", ![k].reachable = r.reachable,
                                       ![k].message = r.message,
                                       ![k].met = Met(tasks[k].url, net)]
             /\ UNCHANGED <<toast, timers, editUrlError>>
  /\ UNCHANGED <<served, previewed, probedUrl, logged, selectedIndex, prefVars, variant, navigated, storeVars, userId, items, strictMode, formVars,
                 commandOpen, editing, editModalOpen, editTitle, editUrl,
                 effects, inbox, loads>>

\* the update of an edit returns: .update({ url, title }).eq('id', id) changes the row
\* if it is still there; then the rest of saveEdit
EditUpdateReturn(k, ok) ==
  /\ ~navigated
  /\ k \in 1..Len(tasks)
  /\ tasks[k].kind = "edit" /\ tasks[k].pc = "write"
  /\ IF ok
     THEN /\ IF tasks[k].id \in DOMAIN store
             THEN /\ CanPublish
                  /\ store' = [store EXCEPT ![tasks[k].id].url = tasks[k].url,
                                            ![tasks[k].id].title = tasks[k].title]
                  /\ inbox' = Publish(Event("UPDATE", Owner, tasks[k].id))
             ELSE UNCHANGED <<store, inbox>>
          /\ ShowToast("Bookmark updated successfully", "success")
          /\ editModalOpen' = FALSE
          /\ editing' = 0
          /\ editUrlError' = ""
          /\ tasks' = IF SchedulesBackgroundProbe(tasks[k].strict)
                      THEN [tasks EXCEPT ![k] = Task("verify", "probe", tasks[k].id, "",
                                                     tasks[k].url, tasks[k].strict, NoPrompt)]
                      ELSE RemoveAt(tasks, k)
     ELSE /\ ShowToast(StoreErrorToast("updating", StoreError), "error")
          /\ tasks' = RemoveAt(tasks, k)
          /\ UNCHANGED <<store, inbox, editModalOpen, editing, editUrlError>>
  /\ UNCHANGED <<served, previewed, probedUrl, logged, selectedIndex, prefVars, variant, navigated, nextId, userId, items, strictMode, verifying,
                 formVars, commandOpen, editTitle, editUrl, effects, loads>>

\* the background probe returns: .then(({ reachable, message }) =>
\* updateVerificationStatus(id, reachable, message)) sends the update
BackgroundProbeReturn(k, net) ==
  /\ ~navigated
  /\ k \in 1..Len(tasks)
  /\ tasks[k].kind = "verify" /\ tasks[k].pc = "probe"
  /\ LET r == verifyUrlReachable(tasks[k].url, net) IN
     tasks' = [tasks EXCEPT ![k].pc = "write", ![k].reachable = r.reachable,
                            ![k].message = r.message, ![k].met = Met(tasks[k].url, net)]
  /\ UNCHANGED <<served, previewed, probedUrl, logged, selectedIndex, prefVars, variant, navigated, storeVars, userId, items, strictMode, verifying,
                 toast, timers, formVars, commandOpen, editVars, effects, inbox, loads>>

\* console.error('Error updating verification status:', error)
ConsoleError(line) == [line |-> line]

\* mutant of ToastAfterVerificationWrite: a refused update is shown
ToastAfterVerificationWrite_Shown(t, ok) ==
  IF ok THEN t ELSE [message |-> "Error updating verification status", type |-> "error"]

\* the toast after updateVerificationStatus: the function never calls showToast
ToastAfterVerificationWrite(t, ok) == t

\* the update of updateVerificationStatus returns; an error is only logged
updateVerificationStatus(k, ok) ==
  /\ ~navigated
  /\ k \in 1..Len(tasks)
  /\ tasks[k].kind = "verify" /\ tasks[k].pc = "write"
  /\ IF ok
     THEN /\ IF tasks[k].id \in DOMAIN store
             THEN /\ CanPublish
                  /\ store' = [store EXCEPT
                         ![tasks[k].id].verified = IF tasks[k].reachable THEN "true" ELSE "false",
                         ![tasks[k].id].verification_message = tasks[k].message,
                         ![tasks[k].id].verified_at = "now"]
                  /\ probedUrl' = [probedUrl EXCEPT ![tasks[k].id] = tasks[k].url]
                  /\ inbox' = Publish(Event("UPDATE", Owner, tasks[k].id))
             ELSE UNCHANGED <<store, inbox, probedUrl>>
          /\ UNCHANGED logged
     ELSE /\ logged' = ConsoleError("Error updating verification status:")
          /\ UNCHANGED <<store, inbox, probedUrl>>
  /\ toast' = ToastAfterVerificationWrite(toast, ok)
  /\ tasks' = RemoveAt(tasks, k)
  /\ UNCHANGED <<served, previewed, selectedIndex, prefVars, variant, navigated, nextId, userId, items, strictMode, verifying,
                 timers, formVars, commandOpen, editVars, effects, loads>>

\* ---------------------------------------------------------------- delete
\* mutant of AsksBeforeDelete: no view asks
AsksBeforeDelete_Never(v) == FALSE

\* `if (!confirm(`Delete "${title}"?`)) return`: the first line of the carousel view's
\* delBookmark; the list view's delBookmark has no such line
AsksBeforeDelete(v) == v = "carousel"

\* delBookmark(id, title) up to its await; answer is what the user says to the prompt
delBookmark(i, t, answer) ==
  IF AsksBeforeDelete(variant) /\ ~answer
  THEN UNCHANGED tasks
  ELSE /\ Len(tasks) < MaxTasks
       /\ tasks' = Append(tasks, Task("del", "write", i, t, "", strictMode,
                                      IF AsksBeforeDelete(variant) THEN t ELSE NoPrompt))

\* the delete button of a card (list view, Carousel3D)
ClickDelete(i, answer) ==
  /\ UserCanAct
  /\ i \in ItemIds
  /\ delBookmark(i, ItemOf(i).title, answer)
  /\ UNCHANGED <<served, previewed, probedUrl, logged, selectedIndex, prefVars, variant, navigated, storeVars, userId, items, strictMode, verifying,
                 toast, timers, formVars, commandOpen, editVars, effects, inbox, loads>>

\* the delete button of a palette row: onDelete(bookmark.id, bookmark.title); onClose()
PaletteDelete(i, answer) ==
  /\ UserCanAct
  /\ variant = "carousel" /\ commandOpen
  /\ i \in ItemIds
  /\ delBookmark(i, ItemOf(i).title, answer)
  /\ commandOpen' = FALSE
  /\ UNCHANGED <<served, previewed, probedUrl, logged, selectedIndex, prefVars, variant, navigated, storeVars, userId, items, strictMode, verifying,
                 toast, timers, formVars, editVars, effects, inbox, loads>>

\* the delete returns, then the rest of delBookmark
DeleteReturn(k, ok) ==
  /\ ~navigated
  /\ k \in 1..Len(tasks)
  /\ tasks[k].kind = "del" /\ tasks[k].pc = "write"
  /\ IF ok
     THEN /\ IF tasks[k].id \in DOMAIN store
             THEN /\ CanPublish
                  /\ store' = [i \in DOMAIN store \ {tasks[k].id} |-> store[i]]
                  /\ inbox' = Publish(Event("DELETE", Missing, tasks[k].id))
             ELSE UNCHANGED <<store, inbox>>
          /\ ShowToast("Deleted: " \o tasks[k].title, "success")
     ELSE /\ ShowToast("Error deleting bookmark", "error")
          /\ UNCHANGED <<store, inbox>>
  /\ tasks' = RemoveAt(tasks, k)
  /\ UNCHANGED <<served, previewed, probedUrl, logged, selectedIndex, prefVars, variant, navigated, nextId, userId, items, strictMode, verifying,
                 formVars, commandOpen, editVars, effects, loads>>

\* ------------------------------------------------- the owner's other sessions
\* Another open session of the owner adds a bookmark.
PeerInsert ==
  /\ ~navigated
  /\ nextId <= MaxId
  /\ CanPublish
  /\ store' = [i \in DOMAIN store \cup {nextId} |->
                 IF i = nextId THEN NewRow("Example", "https://example.org") ELSE store[i]]
  /\ nextId' = nextId + 1
  /\ inbox' = Publish(Event("INSERT", Owner, nextId))
  /\ UNCHANGED <<served, previewed, probedUrl, logged, selectedIndex, prefVars, variant, navigated, userId, items, strictMode, verifying, toast, timers,
                 formVars, commandOpen, editVars, effects, loads, tasks>>

\* Another open session of the owner deletes a bookmark.
PeerDelete(i) ==
  /\ ~navigated
  /\ i \in DOMAIN store
  /\ CanPublish
  /\ store' = [j \in DOMAIN store \ {i} |-> store[j]]
  /\ inbox' = Publish(Event("DELETE", Missing, i))
  /\ UNCHANGED <<served, previewed, probedUrl, logged, selectedIndex, prefVars, variant, navigated, nextId, userId, items, strictMode, verifying, toast,
                 timers, formVars, commandOpen, editVars, effects, loads, tasks>>

\* ------------------------------------------------------------ specification
Init ==
  /\ variant \in {"list", "carousel"}
  /\ navigated = FALSE
  /\ store = <<>>
  /\ nextId = 1
  /\ userId = "null"
  /\ items = <<>>
  /\ strictMode = FALSE
  /\ verifying = FALSE
  /\ toast = NoToast
  /\ timers = 0
  /\ title = "" /\ url = "" /\ urlError = ""
  /\ addModalOpen = FALSE
  /\ commandOpen = FALSE
  /\ editing = 0
  /\ editModalOpen = FALSE
  /\ editTitle = "" /\ editUrl = "" /\ editUrlError = ""
  /\ effects = <<>>
  /\ inbox = <<>>
  /\ loads = <<>>
  /\ logged = NoEvent
  /\ served = NoCall
  /\ previewed = NoPreview
  /\ probedUrl = NeverProbed
  /\ selectedIndex = 0
  /\ darkMode = FALSE
  /\ localStorage = [darkMode |-> NoItem, strictMode |-> NoItem]
  /\ storageInbox = <<>>
  /\ peer = [open |-> FALSE, darkMode |-> FALSE, strictMode |-> FALSE, inbox |-> <<>>]
  /\ toggled = NoToggle
  /\ tasks = <<>>

Next ==
  \/ ToastTimeout
  \/ RunEffect
  \/ \E e \in 1..MaxMounts : Cleanup(e)
  \/ \E e \in 1..MaxMounts, ok \in BOOLEAN : GetUserReturn(e, ok)
  \/ \E k \in 1..MaxLoads, err \in BOOLEAN : ServerSelect(k, err)
  \/ \E k \in 1..MaxLoads : LoadReturn(k)
  \/ \E e \in 1..MaxMounts : Deliver(e)
  \/ \E type \in {"INSERT", "UPDATE", "DELETE"}, uid \in {Other, Missing} :
       ForeignEvent(type, uid)
  \/ \E t \in Titles : TypeTitle(t)
  \/ \E u \in UrlStrings : TypeUrl(u)
  \/ OpenAddModal
  \/ CloseAddModal
  \/ OpenPalette
  \/ ClosePalette
  \/ ToggleStrictMode
  \/ ToggleDarkMode
  \/ HandleStorage
  \/ OpenPeer
  \/ \E key \in PrefKeys : PeerToggle(key)
  \/ PeerHandleStorage
  \/ \E direction \in {"left", "right"} : Rotate(direction)
  \/ ClickAdd
  \/ \E k \in 1..MaxTasks, net \in NetOutcomes : AddProbeReturn(k, net)
  \/ \E k \in 1..MaxTasks, ok \in BOOLEAN : AddInsertReturn(k, ok)
  \/ \E i \in 1..MaxId : StartEdit(i)
  \/ \E i \in 1..MaxId : PaletteEdit(i)
  \/ \E t \in Titles : TypeEditTitle(t)
  \/ \E u \in UrlStrings : TypeEditUrl(u)
  \/ CancelEdit
  \/ ClickSave
  \/ \E k \in 1..MaxTasks, net \in NetOutcomes : EditProbeReturn(k, net)
  \/ \E k \in 1..MaxTasks, ok \in BOOLEAN : EditUpdateReturn(k, ok)
  \/ \E k \in 1..MaxTasks, net \in NetOutcomes : BackgroundProbeReturn(k, net)
  \/ \E k \in 1..MaxTasks, ok \in BOOLEAN : updateVerificationStatus(k, ok)
  \/ \E i \in 1..MaxId, answer \in BOOLEAN : ClickDelete(i, answer)
  \/ \E i \in 1..MaxId, answer \in BOOLEAN : PaletteDelete(i, answer)
  \/ \E k \in 1..MaxTasks, ok \in BOOLEAN : DeleteReturn(k, ok)
  \/ PeerInsert
  \/ \E i \in 1..MaxId : PeerDelete(i)
  \/ \E body \in Bodies, net \in RouteOutcomes : ServeVerifyUrl(body, net)

\* Every operation of the view, from the state after construction.
Spec == Init /\ [][Next]_vars

\* ---------------------------------------------------- focused specifications
\* Each one keeps the operations a group of properties is about, so that TLC can
\* visit all of its states; the actions are the ones above.

\* The realtime channel, load() and the change feed, with the owner's other sessions
\* and other users' rows changing the table.
NextSync ==
  \/ ToastTimeout
  \/ RunEffect
  \/ \E e \in 1..MaxMounts : Cleanup(e)
  \/ \E e \in 1..MaxMounts, ok \in BOOLEAN : GetUserReturn(e, ok)
  \/ \E k \in 1..MaxLoads, err \in BOOLEAN : ServerSelect(k, err)
  \/ \E k \in 1..MaxLoads : LoadReturn(k)
  \/ \E e \in 1..MaxMounts : Deliver(e)
  \/ \E type \in {"INSERT", "UPDATE", "DELETE"}, uid \in {Other, Missing} :
       ForeignEvent(type, uid)
  \/ PeerInsert
  \/ \E i \in 1..MaxId : PeerDelete(i)

SpecSync == Init /\ [][NextSync]_vars

\* The add flow of a view that stays mounted.
NextAdd ==
  \/ ToastTimeout
  \/ RunEffect
  \/ \E e \in 1..MaxMounts : GetUserReturn(e, TRUE)
  \/ \E k \in 1..MaxLoads : ServerSelect(k, FALSE)
  \/ \E k \in 1..MaxLoads : LoadReturn(k)
  \/ \E e \in 1..MaxMounts : Deliver(e)
  \/ TypeTitle("Example")
  \/ TypeUrl("https://example.com")
  \/ OpenAddModal
  \/ ToggleStrictMode
  \/ ClickAdd
  \/ \E k \in 1..MaxTasks, net \in NetOutcomes : AddProbeReturn(k, net)
  \/ \E k \in 1..MaxTasks, ok \in BOOLEAN : AddInsertReturn(k, ok)
  \/ \E k \in 1..MaxTasks, net \in NetOutcomes : BackgroundProbeReturn(k, net)
  \/ \E k \in 1..MaxTasks, ok \in BOOLEAN : updateVerificationStatus(k, ok)

SpecAdd == Init /\ [][NextAdd]_vars

\* A mounted view that has loaded one bookmark and opened the edit form on it, with
\* any text typed into the add form and the edit form; the format errors are the ones
\* the effects on [url] and [editUrl] leave for that text.
InitSubmit ==
  /\ variant \in {"list", "carousel"}
  /\ navigated = FALSE
  /\ store = <<NewRow("Example", "https://example.com")>>
  /\ nextId = 2
  /\ userId = Owner
  /\ items = SelectAll(store, DOMAIN store)
  /\ strictMode \in BOOLEAN
  /\ verifying = FALSE
  /\ toast = NoToast
  /\ timers = 0
  /\ title \in Titles /\ url \in UrlStrings /\ urlError = UrlErrorFor(url)
  /\ addModalOpen = (variant = "carousel")
  /\ commandOpen = FALSE
  /\ editing = 1
  /\ editModalOpen = (variant = "carousel")
  /\ editTitle \in Titles /\ editUrl \in UrlStrings
  /\ editUrlError = EditUrlErrorFor(editUrl)
  /\ effects = <<[pc |-> "done", channel |-> "subscribed", cleaned |-> FALSE]>>
  /\ inbox = <<<<>>>>
  /\ loads = <<>>
  /\ logged = NoEvent
  /\ served = NoCall
  /\ previewed = NoPreview
  /\ probedUrl = NeverProbed
  /\ selectedIndex = 0
  /\ darkMode = FALSE
  /\ localStorage = [darkMode |-> NoItem, strictMode |-> IF strictMode THEN "true" ELSE NoItem]
  /\ storageInbox = <<>>
  /\ peer = [open |-> FALSE, darkMode |-> FALSE, strictMode |-> FALSE, inbox |-> <<>>]
  /\ toggled = NoToggle
  /\ tasks = <<>>

\* The submissions of the two forms and what they start.
NextSubmit ==
  \/ ToastTimeout
  \/ \E k \in 1..MaxLoads : ServerSelect(k, FALSE)
  \/ \E k \in 1..MaxLoads : LoadReturn(k)
  \/ \E e \in 1..MaxMounts : Deliver(e)
  \/ ClickAdd
  \/ \E k \in 1..MaxTasks, net \in NetOutcomes : AddProbeReturn(k, net)
  \/ \E k \in 1..MaxTasks, ok \in BOOLEAN : AddInsertReturn(k, ok)
  \/ ClickSave
  \/ \E k \in 1..MaxTasks, net \in NetOutcomes : EditProbeReturn(k, net)
  \/ \E k \in 1..MaxTasks, ok \in BOOLEAN : EditUpdateReturn(k, ok)
  \/ \E k \in 1..MaxTasks, net \in NetOutcomes : BackgroundProbeReturn(k, net)
  \/ \E k \in 1..MaxTasks, ok \in BOOLEAN : updateVerificationStatus(k, ok)

SpecSubmit == InitSubmit /\ [][NextSubmit]_vars

\* The submissions of the two forms with the strict mode switched in between.
NextModes ==
  \/ ToastTimeout
  \/ ToggleStrictMode
  \/ \E k \in 1..MaxLoads : ServerSelect(k, FALSE)
  \/ \E k \in 1..MaxLoads : LoadReturn(k)
  \/ \E e \in 1..MaxMounts : Deliver(e)
  \/ ClickAdd
  \/ \E k \in 1..MaxTasks, net \in NetOutcomes : AddProbeReturn(k, net)
  \/ \E k \in 1..MaxTasks, ok \in BOOLEAN : AddInsertReturn(k, ok)
  \/ ClickSave
  \/ \E k \in 1..MaxTasks, net \in NetOutcomes : EditProbeReturn(k, net)
  \/ \E k \in 1..MaxTasks, ok \in BOOLEAN : EditUpdateReturn(k, ok)
  \/ \E k \in 1..MaxTasks, net \in NetOutcomes : BackgroundProbeReturn(k, net)
  \/ \E k \in 1..MaxTasks, ok \in BOOLEAN : updateVerificationStatus(k, ok)

SpecModes == InitSubmit /\ [][NextModes]_vars

\* The delete entry points of a view that stays mounted.
NextDelete ==
  \/ ToastTimeout
  \/ RunEffect
  \/ \E e \in 1..MaxMounts : GetUserReturn(e, TRUE)
  \/ \E k \in 1..MaxLoads : ServerSelect(k, FALSE)
  \/ \E k \in 1..MaxLoads : LoadReturn(k)
  \/ \E e \in 1..MaxMounts : Deliver(e)
  \/ PeerInsert
  \/ OpenPalette
  \/ ClosePalette
  \/ \E i \in 1..MaxId, answer \in BOOLEAN : ClickDelete(i, answer)
  \/ \E i \in 1..MaxId, answer \in BOOLEAN : PaletteDelete(i, answer)
  \/ \E k \in 1..MaxTasks, ok \in BOOLEAN : DeleteReturn(k, ok)

SpecDelete == Init /\ [][NextDelete]_vars


\* A mounted carousel view that has loaded a list of up to MaxItems bookmarks; the
\* cursor is moved while the owner's other sessions delete bookmarks.
InitCursor ==
  /\ variant = "carousel"
  /\ navigated = FALSE
  /\ \E n \in 0..MaxItems :
       /\ store = [i \in 1..n |-> NewRow("Example", "https://example.com")]
       /\ nextId = n + 1
  /\ userId = Owner
  /\ items = SelectAll(store, DOMAIN store)
  /\ strictMode = FALSE
  /\ verifying = FALSE
  /\ toast = NoToast
  /\ timers = 0
  /\ title = "" /\ url = "" /\ urlError = ""
  /\ addModalOpen = FALSE
  /\ commandOpen = FALSE
  /\ editing = 0
  /\ editModalOpen = FALSE
  /\ editTitle = "" /\ editUrl = "" /\ editUrlError = ""
  /\ effects = <<[pc |-> "done", channel |-> "subscribed", cleaned |-> FALSE]>>
  /\ inbox = <<<<>>>>
  /\ loads = <<>>
  /\ logged = NoEvent
  /\ served = NoCall
  /\ previewed = NoPreview
  /\ probedUrl = NeverProbed
  /\ selectedIndex = 0
  /\ darkMode = FALSE
  /\ localStorage = [darkMode |-> NoItem, strictMode |-> NoItem]
  /\ storageInbox = <<>>
  /\ peer = [open |-> FALSE, darkMode |-> FALSE, strictMode |-> FALSE, inbox |-> <<>>]
  /\ toggled = NoToggle
  /\ tasks = <<>>

NextCursor ==
  \/ \E direction \in {"left", "right"} : Rotate(direction)
  \/ \E i \in 1..MaxItems : PeerDelete(i)
  \/ \E e \in 1..MaxMounts : Deliver(e)
  \/ \E k \in 1..MaxLoads : ServerSelect(k, FALSE)
  \/ \E k \in 1..MaxLoads : LoadReturn(k)

SpecCursor == InitCursor /\ [][NextCursor]_vars

\* A mounted view and a second view of the same browser profile: the two flags, the
\* profile's localStorage and the 'storage' events between the two windows.
InitPrefs ==
  /\ variant \in {"list", "carousel"}
  /\ navigated = FALSE
  /\ store = <<>>
  /\ nextId = 1
  /\ userId = Owner
  /\ items = <<>>
  /\ strictMode = FALSE
  /\ verifying = FALSE
  /\ toast = NoToast
  /\ timers = 0
  /\ title = "" /\ url = "" /\ urlError = ""
  /\ addModalOpen = FALSE
  /\ commandOpen = FALSE
  /\ editing = 0
  /\ editModalOpen = FALSE
  /\ editTitle = "" /\ editUrl = "" /\ editUrlError = ""
  /\ effects = <<[pc |-> "done", channel |-> "subscribed", cleaned |-> FALSE]>>
  /\ inbox = <<<<>>>>
  /\ loads = <<>>
  /\ logged = NoEvent
  /\ served = NoCall
  /\ previewed = NoPreview
  /\ probedUrl = NeverProbed
  /\ selectedIndex = 0
  /\ darkMode = FALSE
  /\ localStorage = [darkMode |-> NoItem, strictMode |-> NoItem]
  /\ storageInbox = <<>>
  /\ peer = [open |-> FALSE, darkMode |-> FALSE, strictMode |-> FALSE, inbox |-> <<>>]
  /\ toggled = NoToggle
  /\ tasks = <<>>

NextPrefs ==
  \/ ToastTimeout
  \/ ToggleStrictMode
  \/ ToggleDarkMode
  \/ HandleStorage
  \/ OpenPeer
  \/ \E key \in PrefKeys : PeerToggle(key)
  \/ PeerHandleStorage

SpecPrefs == InitPrefs /\ [][NextPrefs]_vars

\* The same, where a timer that showToast started fires after its 4000 ms.
SpecToast == InitPrefs /\ [][NextPrefs]_vars /\ WF_vars(ToastTimeout)

\* The url fields of the two forms, typed into and submitted.
InitQualify ==
  /\ variant \in {"list", "carousel"}
  /\ navigated = FALSE
  /\ store = <<NewRow("Example", "https://example.com")>>
  /\ nextId = 2
  /\ userId = Owner
  /\ items = SelectAll(store, DOMAIN store)
  /\ strictMode = FALSE
  /\ verifying = FALSE
  /\ toast = NoToast
  /\ timers = 0
  /\ title = "" /\ url = "" /\ urlError = ""
  /\ addModalOpen = (variant = "carousel")
  /\ commandOpen = FALSE
  /\ editing = 1
  /\ editModalOpen = (variant = "carousel")
  /\ editTitle = "Example" /\ editUrl = "https://example.com"
  /\ editUrlError = ""
  /\ effects = <<[pc |-> "done", channel |-> "subscribed", cleaned |-> FALSE]>>
  /\ inbox = <<<<>>>>
  /\ loads = <<>>
  /\ logged = NoEvent
  /\ served = NoCall
  /\ previewed = NoPreview
  /\ probedUrl = NeverProbed
  /\ selectedIndex = 0
  /\ darkMode = FALSE
  /\ localStorage = [darkMode |-> NoItem, strictMode |-> NoItem]
  /\ storageInbox = <<>>
  /\ peer = [open |-> FALSE, darkMode |-> FALSE, strictMode |-> FALSE, inbox |-> <<>>]
  /\ toggled = NoToggle
  /\ tasks = <<>>

NextQualify ==
  \/ \E t \in Titles : TypeTitle(t)
  \/ \E u \in QualifierInputs : TypeUrl(u)
  \/ \E u \in QualifierInputs : TypeEditUrl(u)
  \/ ClickAdd
  \/ ClickSave

SpecQualify == InitQualify /\ [][NextQualify]_vars

\* The probe: the route called by any client, and by the view's add flow in both
\* modes, with every outcome of the request.
ProbedUrls == {"https://example.com", "http://192.168.1.10"}

InitProbe ==
  /\ variant \in {"list", "carousel"}
  /\ navigated = FALSE
  /\ store = <<>>
  /\ nextId = 1
  /\ userId = Owner
  /\ items = <<>>
  /\ strictMode \in BOOLEAN
  /\ verifying = FALSE
  /\ toast = NoToast
  /\ timers = 0
  /\ title = "Example" /\ url \in ProbedUrls /\ urlError = ""
  /\ addModalOpen = (variant = "carousel")
  /\ commandOpen = FALSE
  /\ editing = 0
  /\ editModalOpen = FALSE
  /\ editTitle = "" /\ editUrl = ""
  /\ editUrlError = ""
  /\ effects = <<[pc |-> "done", channel |-> "subscribed", cleaned |-> FALSE]>>
  /\ inbox = <<<<>>>>
  /\ loads = <<>>
  /\ logged = NoEvent
  /\ served = NoCall
  /\ previewed = NoPreview
  /\ probedUrl = NeverProbed
  /\ selectedIndex = 0
  /\ darkMode = FALSE
  /\ localStorage = [darkMode |-> NoItem, strictMode |-> IF strictMode THEN "true" ELSE NoItem]
  /\ storageInbox = <<>>
  /\ peer = [open |-> FALSE, darkMode |-> FALSE, strictMode |-> FALSE, inbox |-> <<>>]
  /\ toggled = NoToggle
  /\ tasks = <<>>

NextProbe ==
  \/ ToastTimeout
  \/ \E body \in Bodies, net \in RouteOutcomes : ServeVerifyUrl(body, net)
  \/ \E k \in 1..MaxLoads : ServerSelect(k, FALSE)
  \/ \E k \in 1..MaxLoads : LoadReturn(k)
  \/ \E e \in 1..MaxMounts : Deliver(e)
  \/ ClickAdd
  \/ \E k \in 1..MaxTasks, net \in AllNetOutcomes : AddProbeReturn(k, net)
  \/ \E k \in 1..MaxTasks : AddInsertReturn(k, TRUE)
  \/ \E k \in 1..MaxTasks, net \in AllNetOutcomes : BackgroundProbeReturn(k, net)
  \/ \E k \in 1..MaxTasks : updateVerificationStatus(k, TRUE)

SpecProbe == InitProbe /\ [][NextProbe]_vars

\* A bookmark whose background probe failed, open in the edit form with another url
\* typed in, and the edit that follows.
InitReverify ==
  /\ variant \in {"list", "carousel"}
  /\ navigated = FALSE
  /\ store = <<[NewRow("Example", "https://example.com") EXCEPT
                  !.verified = "false",
                  !.verification_message = "Server returned 404",
                  !.verified_at = "now"]>>
  /\ nextId = 2
  /\ userId = Owner
  /\ items = SelectAll(store, DOMAIN store)
  /\ strictMode \in BOOLEAN
  /\ verifying = FALSE
  /\ toast = NoToast
  /\ timers = 0
  /\ title = "" /\ url = "" /\ urlError = ""
  /\ addModalOpen = FALSE
  /\ commandOpen = FALSE
  /\ editing = 1
  /\ editModalOpen = (variant = "carousel")
  /\ editTitle = "Example" /\ editUrl = "https://example.org"
  /\ editUrlError = ""
  /\ effects = <<[pc |-> "done", channel |-> "subscribed", cleaned |-> FALSE]>>
  /\ inbox = <<<<>>>>
  /\ loads = <<>>
  /\ logged = NoEvent
  /\ served = NoCall
  /\ previewed = NoPreview
  /\ probedUrl = [NeverProbed EXCEPT ![1] = "https://example.com"]
  /\ selectedIndex = 0
  /\ darkMode = FALSE
  /\ localStorage = [darkMode |-> NoItem, strictMode |-> IF strictMode THEN "true" ELSE NoItem]
  /\ storageInbox = <<>>
  /\ peer = [open |-> FALSE, darkMode |-> FALSE, strictMode |-> FALSE, inbox |-> <<>>]
  /\ toggled = NoToggle
  /\ tasks = <<>>

NextReverify ==
  \/ ToastTimeout
  \/ \E k \in 1..MaxLoads : ServerSelect(k, FALSE)
  \/ \E k \in 1..MaxLoads : LoadReturn(k)
  \/ \E e \in 1..MaxMounts : Deliver(e)
  \/ ClickSave
  \/ \E k \in 1..MaxTasks, net \in NetOutcomes : EditProbeReturn(k, net)
  \/ \E k \in 1..MaxTasks, ok \in BOOLEAN : EditUpdateReturn(k, ok)
  \/ \E k \in 1..MaxTasks, net \in NetOutcomes : BackgroundProbeReturn(k, net)
  \/ \E k \in 1..MaxTasks, ok \in BOOLEAN : updateVerificationStatus(k, ok)

SpecReverify == InitReverify /\ [][NextReverify]_vars

\* The preview route called by a client: for a page that is served, and, with every
\* body and outcome of the fetch, for a page without any of the tags.
NextPreview ==
  \/ \E page \in Pages :
       ServeFetchPreview(Body("https://example.com"), page, Response(200))
  \/ \E body \in PreviewBodies, net \in PreviewOutcomes :
       ServeFetchPreview(body, NoPage, net)

SpecPreview == InitPrefs /\ [][NextPreview]_vars

\* A mounted view with one bookmark and both forms filled in: add, edit and delete with
\* the reloads they cause, which may fail.
InitList ==
  /\ variant \in {"list", "carousel"}
  /\ navigated = FALSE
  /\ store = <<NewRow("Example", "https://example.com")>>
  /\ nextId = 2
  /\ userId = Owner
  /\ items = SelectAll(store, DOMAIN store)
  /\ strictMode \in BOOLEAN
  /\ verifying = FALSE
  /\ toast = NoToast
  /\ timers = 0
  /\ title = "Example" /\ url = "https://example.org" /\ urlError = ""
  /\ addModalOpen = (variant = "carousel")
  /\ commandOpen = FALSE
  /\ editing = 1
  /\ editModalOpen = (variant = "carousel")
  /\ editTitle = "Example" /\ editUrl = "https://example.org"
  /\ editUrlError = ""
  /\ effects = <<[pc |-> "done", channel |-> "subscribed", cleaned |-> FALSE]>>
  /\ inbox = <<<<>>>>
  /\ loads = <<>>
  /\ logged = NoEvent
  /\ served = NoCall
  /\ previewed = NoPreview
  /\ probedUrl = NeverProbed
  /\ selectedIndex = 0
  /\ darkMode = FALSE
  /\ localStorage = [darkMode |-> NoItem, strictMode |-> IF strictMode THEN "true" ELSE NoItem]
  /\ storageInbox = <<>>
  /\ peer = [open |-> FALSE, darkMode |-> FALSE, strictMode |-> FALSE, inbox |-> <<>>]
  /\ toggled = NoToggle
  /\ tasks = <<>>

NextList ==
  \/ ToastTimeout
  \/ \E k \in 1..MaxLoads, err \in BOOLEAN : ServerSelect(k, err)
  \/ \E k \in 1..MaxLoads : LoadReturn(k)
  \/ \E e \in 1..MaxMounts : Deliver(e)
  \/ ClickAdd
  \/ \E k \in 1..MaxTasks, net \in NetOutcomes : AddProbeReturn(k, net)
  \/ \E k \in 1..MaxTasks, ok \in BOOLEAN : AddInsertReturn(k, ok)
  \/ ClickSave
  \/ \E k \in 1..MaxTasks, net \in NetOutcomes : EditProbeReturn(k, net)
  \/ \E k \in 1..MaxTasks, ok \in BOOLEAN : EditUpdateReturn(k, ok)
  \/ \E k \in 1..MaxTasks, net \in NetOutcomes : BackgroundProbeReturn(k, net)
  \/ \E k \in 1..MaxTasks, ok \in BOOLEAN : updateVerificationStatus(k, ok)
  \/ \E i \in 1..MaxId, answer \in BOOLEAN : ClickDelete(i, answer)
  \/ \E k \in 1..MaxTasks, ok \in BOOLEAN : DeleteReturn(k, ok)

SpecList == InitList /\ [][NextList]_vars

\* The submissions of the two filled-in forms, where whatever was started comes back:
\* the route answers every probe (it aborts its own request after 3 s), and a toast's
\* timer fires.
SpecVerifying ==
  /\ InitList /\ [][NextSubmit]_vars
  /\ WF_vars(ToastTimeout)
  /\ WF_vars(\E k \in 1..MaxTasks, net \in NetOutcomes : AddProbeReturn(k, net))
  /\ WF_vars(\E k \in 1..MaxTasks, net \in NetOutcomes : EditProbeReturn(k, net))

\* ------------------------------------------------------------------ properties
TaskIdx == 1..Len(tasks)

\* §4.1 of the specification: a well-formed http(s) URL
Qualifies(u) ==
  LET p == NewURL(u) IN
  /\ Trim(u) # ""
  /\ p.ok
  /\ p.protocol \in {"http:", "https:"}
  /\ Len(p.hostname) >= 2
  /\ Len(p.hostname[Len(p.hostname)]) >= 2

\* a strict-mode add whose blocking probe is outstanding ends in this step without
\* having sent its insert
StrictAddAborts ==
  \E k \in TaskIdx :
    /\ tasks[k].kind = "add" /\ tasks[k].strict /\ tasks[k].pc = "probe"
    /\ tasks' = RemoveAt(tasks, k)

\* C1: in strict mode an add whose probe returned reachable=false sends no insert (a
\* strict add whose insert is in flight holds a probe result with reachable=true), and
\* the step in which such an add ends leaves the table and the in-memory list as they
\* were.
C1_StrictUnreachableAddPersistsNothing ==
  /\ [](\A k \in TaskIdx :
          (tasks[k].kind = "add" /\ tasks[k].strict /\ tasks[k].pc = "write")
            => tasks[k].reachable)
  /\ [][StrictAddAborts => (store' = store /\ nextId' = nextId /\ items' = items
                            /\ inbox' = inbox)]_vars

\* a strict add was stopped by its probe: its failure toast is up and nothing was stored
C1_Witness ==
  /\ strictMode
  /\ toast = [message |-> "URL verification failed: Server returned 404", type |-> "error"]
  /\ tasks = <<>>
  /\ DOMAIN store = {}
  /\ items = <<>>

\* the pending call in slot k goes on in this step (it ends or moves to its next
\* await) and every other pending call stays where it is
TaskSteps(k) ==
  /\ k \in TaskIdx
  /\ \/ tasks' = RemoveAt(tasks, k)
     \/ /\ Len(tasks') = Len(tasks)
        /\ tasks'[k] # tasks[k]
        /\ \A j \in TaskIdx \ {k} : tasks'[j] = tasks[j]

\* the insert of the non-strict add in slot k succeeds in this step
NonStrictInsertSucceeds(k) ==
  /\ TaskSteps(k)
  /\ tasks[k].kind = "add" /\ ~tasks[k].strict /\ tasks[k].pc = "write"
  /\ nextId' = nextId + 1
  /\ nextId \in DOMAIN store'
  /\ store'[nextId].url = tasks[k].url

\* the background probes waiting in ts for bookmark i
ProbesFor(ts, i) == {j \in 1..Len(ts) : ts[j].kind = "verify" /\ ts[j].id = i}

\* C2: a non-strict add sends its insert with no probe before it; the step in which
\* the insert succeeds schedules exactly one background probe, for the stored url,
\* shows the success toast and closes the input surface; neither load() nor the feed
\* waits for that probe.
C2_NonStrictAddPersistsThenProbesOnce ==
  /\ [](\A k \in TaskIdx :
          (tasks[k].kind = "add" /\ ~tasks[k].strict)
            => (tasks[k].pc = "write" /\ ~tasks[k].reachable /\ tasks[k].message = ""))
  /\ [][\A k \in 1..MaxTasks :
          NonStrictInsertSucceeds(k) =>
            /\ Cardinality(ProbesFor(tasks', nextId)) = 1
            /\ \A j \in ProbesFor(tasks', nextId) :
                 tasks'[j].pc = "probe" /\ tasks'[j].url = tasks[k].url
            /\ Len(tasks') = Len(tasks)
            /\ toast' = [message |-> "Bookmark added successfully", type |-> "success"]
            /\ title' = "" /\ url' = "" /\ ~addModalOpen']_vars

\* the list already shows the new bookmark while its background probe is still out
C2_Witness ==
  /\ ~strictMode
  /\ \E k \in TaskIdx :
       /\ tasks[k].kind = "verify" /\ tasks[k].pc = "probe"
       /\ tasks[k].id \in ItemIds
       /\ ItemOf(tasks[k].id).verified = "null"
  /\ loads = <<>>

\* the handler of channel e takes the event at the head of its inbox in this step
Handles(e) ==
  /\ e \in OpenChannels
  /\ inbox[e] # <<>>
  /\ inbox'[e] = Tail(inbox[e])
  /\ effects' = effects

\* this step calls load() exactly once, awaited by nobody
OneLoadCalled == loads' = Append(loads, NewLoad(0))

\* C3: the handling of a DELETE event calls load() exactly once, whatever the id and
\* the owner of the deleted row.
C3_DeleteEventLoadsOnce ==
  [][\A e \in 1..MaxMounts :
       (Handles(e) /\ Head(inbox[e]).eventType = "DELETE") => OneLoadCalled]_vars

\* the DELETE of another user's row was handled and the load() it called is out; no
\* row of the owner ever changed
C3_Witness ==
  /\ logged = Event("DELETE", Missing, 0)
  /\ nextId = 1
  /\ loads = <<NewLoad(0)>>

\* C4: the handling of an INSERT or UPDATE event calls load() (once) if the event's
\* new.user_id is the session's owner id, and calls nothing otherwise.
C4_InsertUpdateLoadsIffOwner ==
  [][\A e \in 1..MaxMounts :
       (Handles(e) /\ Head(inbox[e]).eventType \in {"INSERT", "UPDATE"}) =>
          IF Head(inbox[e]).user_id = Owner THEN OneLoadCalled ELSE loads' = loads]_vars

\* the INSERT of a bookmark of the owner was handled and the load() it called is out
C4_Witness ==
  /\ logged = Event("INSERT", Owner, 1)
  /\ loads = <<NewLoad(0)>>
  /\ \A e \in OpenChannels : inbox[e] = <<>>

\* init() has run to its end in the current run of the effect, and nothing is pending
Quiescent ==
  /\ ~navigated
  /\ Len(effects) > 0
  /\ ~effects[Len(effects)].cleaned
  /\ effects[Len(effects)].pc = "done"
  /\ loads = <<>>
  /\ tasks = <<>>
  /\ \A e \in OpenChannels : inbox[e] = <<>>

\* C5: once no event is pending and every load() has completed, the in-memory list is
\* the store's list.
C5_QuiescentListEqualsStore == Quiescent => items = SelectAll(store, DOMAIN store)

\* C6: a run of the effect whose cleanup has run holds no subscribed channel.
C6_NoChannelAfterCleanup ==
  \A e \in 1..Len(effects) : effects[e].cleaned => effects[e].channel # "subscribed"

\* C7: at most one channel is subscribed.
C7_AtMostOneChannel == Cardinality(OpenChannels) <= 1

\* the writes of add and edit that are in flight
Writes == {k \in TaskIdx : tasks[k].kind \in {"add", "edit"} /\ tasks[k].pc = "write"}

\* C8: every insert and every title/url update in flight carries a url the qualifier
\* accepts, and so does every stored row.
C8_OnlyQualifiedUrlsPersisted ==
  /\ \A k \in Writes : Qualifies(tasks[k].url)
  /\ \A i \in DOMAIN store : Qualifies(store[i].url)

\* an edit changed the stored url
C8_Witness ==
  /\ 1 \in DOMAIN store
  /\ store[1].url = "https://example.org"

\* C9: no add and no edit is in flight (probing or writing) with a blank title, an
\* empty url or a url the qualifier refuses.
C9_InvalidSubmissionStartsNothing ==
  \A k \in TaskIdx :
    tasks[k].kind \in {"add", "edit"} =>
      /\ Trim(tasks[k].title) # ""
      /\ Trim(tasks[k].url) # ""
      /\ Qualifies(tasks[k].url)

\* the edit form holds a blank title beside a well-formed url; an add has gone through
\* and nothing was started for the edit form
C9_Witness ==
  /\ EditFormShown /\ editTitle = " " /\ Qualifies(editUrl)
  /\ toast = [message |-> "Bookmark added successfully", type |-> "success"]
  /\ 1 \in DOMAIN store /\ store[1] = NewRow("Example", "https://example.com")
  /\ tasks = <<>>

\* C10: every delete in flight was confirmed in a prompt naming the bookmark's title.
C10_DeleteOnlyAfterConfirmation ==
  \A k \in TaskIdx : tasks[k].kind = "del" => tasks[k].prompt = tasks[k].title

\* C11: for a list of n >= 1 items and a cursor i in 0..n-1, rotating left gives
\* (i-1) mod n and rotating right gives (i+1) mod n; and a step of the view that moves
\* a cursor which is a valid index of a non-empty list moves it to one of the two.
C11_RotationIsModular ==
  /\ [](\A n \in 1..MaxItems : \A i \in 0..(n - 1) :
          /\ rotateCarousel("left", i, n) = (i - 1) % n
          /\ rotateCarousel("right", i, n) = (i + 1) % n)
  /\ [][(/\ selectedIndex' # selectedIndex
         /\ items # <<>>
         /\ selectedIndex \in 0..(Len(items) - 1))
        => selectedIndex' \in {(selectedIndex - 1) % Len(items),
                               (selectedIndex + 1) % Len(items)}]_vars

\* the cursor of a 5-item list is at index 4 (one step left from where it starts)
C11_Witness == Len(items) = 5 /\ selectedIndex = 4

\* C12: a step in which a reload replaces the list by a shorter one leaves the cursor
\* a valid index of the new list (any cursor counts as the empty-list state when the
\* new list is empty).
C12_CursorClampedWhenListShrinks ==
  [][Len(items') < Len(items)
       => (items' = <<>> \/ selectedIndex' \in 0..(Len(items') - 1))]_vars

\* C13: once this view has toggled a flag and no 'storage' event is waiting for the
\* second view, the second view's flag has the new value.
C13_PeerTakesToggledValue ==
  \A key \in PrefKeys :
    (peer.open /\ toggled.view = 1 /\ toggled.key = key /\ peer.inbox = <<>>)
      => peer[key] = toggled.value


\* C14: while an add or an edit is in flight, its submit control is disabled, so the
\* same submission cannot be started twice.
C14_SubmitDisabledWhileInFlight ==
  /\ (\E k \in TaskIdx : tasks[k].kind = "add")
       => ~(UserCanAct /\ AddFormShown /\ ~AddDisabled)
  /\ (\E k \in TaskIdx : tasks[k].kind = "edit")
       => ~(UserCanAct /\ EditFormShown /\ ~SaveDisabled)


\* what a blocking probe lets through: a response with a status in [200,400), or a
\* url the route does not probe
ProbeSucceeded(t) ==
  \/ t.met.kind = "response" /\ t.met.status >= 200 /\ t.met.status < 400
  \/ t.met = NotProbed /\ SkipsVerification(t.url)

\* the two failures of a probe that are not a timeout
ConfirmedUnreachable == "Server returned 404"
Ambiguous == "Could not verify URL (CORS, DNS, or network error)"

\* C15: in strict mode a probe that fails, ambiguously or with a confirmed-unreachable
\* answer, ends the add or edit with nothing written; in non-strict mode the row is
\* written first, stays, and the probe's result only sets its verified,
\* verification_message and verified_at.
C15_StrictFailsClosedPassiveFailsOpen ==
  /\ [](\A k \in TaskIdx :
          /\ (tasks[k].kind \in {"add", "edit"} /\ tasks[k].strict /\ tasks[k].pc = "write")
               => (tasks[k].reachable /\ ProbeSucceeded(tasks[k]))
          /\ (tasks[k].kind = "verify" /\ tasks[k].pc = "write")
               => /\ ~tasks[k].strict
                  /\ tasks[k].reachable <=> ProbeSucceeded(tasks[k])
                  /\ tasks[k].met = FetchFailed => tasks[k].message = Ambiguous
                  /\ tasks[k].met = Response(404) => tasks[k].message = ConfirmedUnreachable)
  /\ [][\A k \in TaskIdx :
          /\ (/\ TaskSteps(k) /\ tasks[k].kind \in {"add", "edit"}
              /\ tasks[k].strict /\ tasks[k].pc = "probe"
              /\ Len(tasks') < Len(tasks))
               => /\ store' = store /\ nextId' = nextId /\ inbox' = inbox
                  /\ toast'.type = "error"
          /\ (TaskSteps(k) /\ tasks[k].kind = "verify")
               => /\ DOMAIN store' = DOMAIN store
                  /\ \A i \in DOMAIN store :
                       /\ store'[i].title = store[i].title
                       /\ store'[i].url = store[i].url
                       /\ store'[i] # store[i]
                            => /\ i = tasks[k].id
                               /\ store'[i].verified = StringOf(tasks[k].reachable)
                               /\ store'[i].verification_message = tasks[k].message
                               /\ store'[i].verified_at = "now"]_vars

C15_Witness ==
  /\ strictMode
  /\ toast.message = "URL verification failed: " \o Ambiguous
  /\ \E i \in DOMAIN store :
       /\ store[i].verified = "false"
       /\ store[i].verification_message = ConfirmedUnreachable
       /\ store[i].verified_at = "now"



\* the insert of the add in slot k succeeds in this step
InsertSucceeds(k) ==
  /\ TaskSteps(k)
  /\ tasks[k].kind = "add" /\ tasks[k].pc = "write"
  /\ nextId' = nextId + 1
  /\ nextId \in DOMAIN store'

\* the calls of the preview route waiting in ts for bookmark i
PreviewsFor(ts, i) == {j \in 1..Len(ts) : ts[j].kind = "preview" /\ ts[j].id = i}

\* C16: the step in which the insert of an add succeeds starts a background call of
\* the preview route for the new bookmark, next to the background probe and in both
\* modes; no other step starts one.
C16_SuccessfulAddFetchesPreview ==
  [][/\ \A k \in TaskIdx : InsertSucceeds(k) => PreviewsFor(tasks', nextId) # {}
     /\ (\E i \in 1..MaxId : PreviewsFor(tasks', i) # PreviewsFor(tasks, i))
          => \E k \in TaskIdx : InsertSucceeds(k)]_vars


\* C17: validateUrlFormat is false for a string that is blank, does not parse, has a
\* scheme other than http / https, has no dot in its host or a last host label of
\* fewer than 2 characters, and true otherwise, "https://example.com" included; the
\* copies of the two views and of the add modal agree on every string, so that what
\* a form lets through its submit handler never refuses as malformed.
C17_QualifierCopiesAgreeWithDefinition ==
  /\ \A s \in QualifierInputs :
       /\ validateUrlFormat(s) = Qualifies(s)
       /\ validateUrlFormat_Modal(s) = validateUrlFormat(s)
       /\ validateUrlFormat_List(s) = validateUrlFormat(s)
  /\ validateUrlFormat("https://example.com")
  /\ urlError = "" <=> (Trim(url) = "" \/ Qualifies(url))
  /\ editUrlError = "" <=> (Trim(editUrl) = "" \/ Qualifies(editUrl))
  /\ toast.message # "Invalid URL format"
  /\ \A k \in TaskIdx : Qualifies(tasks[k].url)

C17_Witness ==
  /\ variant = "carousel"
  /\ url = "https://example.c"
  /\ urlError = "Invalid URL format (must start with http:// or https://)"
  /\ editUrl = "ftp://example.com"
  /\ editUrlError = "Invalid URL format"
  /\ tasks # <<>> /\ tasks[1].url = "http://192.168.1.10"


TimeoutMessage == "Timeout - URL took too long to respond"

\* a status in [200,400)
InRange(met) == met.kind = "response" /\ met.status >= 200 /\ met.status < 400

\* the answer to a request is a normal one: nothing thrown, HTTP 200, a boolean
\* reachable; a timeout and any other failure are told apart by their messages
NormalAnswer(call) ==
  /\ ~call.res.threw
  /\ call.res.status = 200
  /\ call.res.reachable \in BOOLEAN
  /\ call.met = Aborted
       => ~call.res.reachable /\ call.res.message = TimeoutMessage
  /\ (~call.res.reachable /\ call.met # Aborted /\ call.met.kind # "response")
       => call.res.message = Ambiguous

\* what the wrapper resolved to in a flow that has its probe behind it
Resolved(t) ==
  /\ t.reachable \in BOOLEAN
  /\ t.message \in STRING
  /\ t.met = Aborted => ~t.reachable /\ t.message = TimeoutMessage
  /\ t.met = FetchFailed => ~t.reachable /\ t.message = Ambiguous
  /\ t.met = ApiDown => ~t.reachable /\ t.message = "Verification failed"

Probed(t) == t.pc = "write" /\ (t.kind = "verify" \/ t.strict)

\* C18 as stated: every request gets a normal answer and reachable is true iff the
\* response status is in [200,400); the wrapper always resolves to a value.
C18_ReachableIffStatusInRange ==
  /\ served # NoCall
       => /\ NormalAnswer(served)
          /\ served.res.reachable <=> InRange(served.met)
  /\ \A k \in TaskIdx :
       Probed(tasks[k])
         => /\ Resolved(tasks[k])
            /\ tasks[k].reachable <=> InRange(tasks[k].met)

\* C18 amended: the same, except that a url containing localhost, 127.0.0.1 or
\* 192.168. is answered reachable without any request.
C18_ReachableIffStatusInRangeOrLocal ==
  /\ served # NoCall
       => /\ NormalAnswer(served)
          /\ served.res.reachable
               <=> \/ InRange(served.met)
                   \/ /\ served.body.json /\ served.body.url # Missing
                      /\ SkipsVerification(served.body.url)
          /\ served.met # NotProbed => ~SkipsVerification(served.body.url)
  /\ \A k \in TaskIdx :
       Probed(tasks[k])
         => /\ Resolved(tasks[k])
            /\ tasks[k].reachable
                 <=> \/ InRange(tasks[k].met)
                     \/ tasks[k].met = NotProbed /\ SkipsVerification(tasks[k].url)
            /\ SkipsVerification(tasks[k].url) => tasks[k].met \in {NotProbed, ApiDown}

C18_Witness ==
  /\ served.body = MalformedBody
  /\ served.res = Returned(FALSE, Ambiguous)
  /\ \E k \in TaskIdx :
       /\ Probed(tasks[k])
       /\ tasks[k].url = "http://192.168.1.10"
       /\ tasks[k].reachable /\ tasks[k].met = NotProbed


\* the insert or update of the add / edit in slot k returns in this step, and not
\* with success
WriteRejected(k) ==
  /\ TaskSteps(k)
  /\ tasks[k].kind \in {"add", "edit"} /\ tasks[k].pc = "write"
  /\ toast'.type # "success"

\* C19: when the store refuses the insert of an add or the update of an edit, the
\* error toast with the store's message is shown and nothing else happens: no
\* background probe, no write, the form stays open and the list is as it was.
C19_RejectedWriteOnlyNotifies ==
  [][\A k \in TaskIdx :
       WriteRejected(k)
         => /\ toast' = [message |-> (IF tasks[k].kind = "add"
                                       THEN "Error adding bookmark: "
                                       ELSE "Error updating bookmark: ")
                                      \o StoreError.message,
                         type |-> "error"]
            /\ tasks' = RemoveAt(tasks, k)
            /\ store' = store /\ nextId' = nextId /\ inbox' = inbox
            /\ items' = items
            /\ addModalOpen' = addModalOpen /\ editModalOpen' = editModalOpen
            /\ editing' = editing
            /\ editTitle' = editTitle /\ editUrl' = editUrl]_vars

C19_Witness ==
  /\ variant = "carousel"
  /\ toast = [message |-> "Error updating bookmark: " \o StoreError.message, type |-> "error"]
  /\ editing = 1 /\ editModalOpen /\ addModalOpen
  /\ tasks = <<>>
  /\ store = <<NewRow("Example", "https://example.com")>>
  /\ editUrl = "https://example.org"

\* what a step of the background verification in slot k leaves alone
VerificationStepIsSilent(k) ==
  /\ toast' = toast /\ timers' = timers
  /\ urlError' = urlError /\ editUrlError' = editUrlError
  /\ addModalOpen' = addModalOpen /\ editModalOpen' = editModalOpen
  /\ editing' = editing /\ verifying' = verifying
  /\ title' = title /\ url' = url /\ editTitle' = editTitle /\ editUrl' = editUrl
  /\ items' = items
  /\ DOMAIN store' = DOMAIN store
  /\ \A i \in DOMAIN store :
       store'[i].title = store[i].title /\ store'[i].url = store[i].url
  /\ logged' # logged
       => /\ logged' = ConsoleError("Error updating verification status:")
          /\ store' = store /\ inbox' = inbox

\* C20 as stated: a failing background probe or verification update changes nothing
\* of the bookmark's title and url and nothing of the view, the list included; the
\* list never shows a failure.
C20_BackgroundFailureNeverReachesView ==
  /\ [](\A j \in 1..Len(items) : items[j].verified # "false")
  /\ [][\A k \in TaskIdx :
          (TaskSteps(k) /\ tasks[k].kind = "verify") => VerificationStepIsSilent(k)]_vars

\* C20 amended: no step of the background verification changes the title or url of a
\* row or anything of the view; a refused update is only logged; the list shows a
\* failed probe only as the verified fields that a later reload reads from the store.
C20_BackgroundFailureOnlyRecorded ==
  /\ [](\A j \in 1..Len(items) :
          items[j].verified = "false"
            => /\ items[j].verified_at = "now"
               /\ items[j].verification_message
                    \in {ConfirmedUnreachable, Ambiguous})
  /\ [][\A k \in TaskIdx :
          (TaskSteps(k) /\ tasks[k].kind = "verify") => VerificationStepIsSilent(k)]_vars

C20_Witness ==
  /\ logged = ConsoleError("Error updating verification status:")
  /\ \E j \in 1..Len(items) :
       items[j].verified = "false" /\ items[j].verification_message = Ambiguous
  /\ \E i \in DOMAIN store : store[i].verified = "null"
  /\ toast.message = "Bookmark added successfully"


\* C30: while the list is empty the cursor is 0, whatever arrow keys are pressed.
C30_CursorStaysZeroOnEmptyList ==
  items = <<>> => selectedIndex = 0


\* the load in slot k ends in this step
LoadEnds(k) ==
  /\ k \in 1..Len(loads)
  /\ loads[k].phase = "resp"
  /\ loads' = RemoveAt(loads, k)

\* C21: add, edit and remove leave the list alone; the list changes only in the step
\* in which a load() ends without error, and is then the fetched list; a load() that
\* ends with an error leaves the list as it was and shows an error toast.
C21_ListChangesOnlyBySuccessfulLoad ==
  [][/\ items' # items
          => \E k \in 1..Len(loads) :
               LoadEnds(k) /\ ~loads[k].error /\ items' = loads[k].data
     /\ \A k \in 1..Len(loads) :
          /\ (LoadEnds(k) /\ ~loads[k].error) => items' = loads[k].data
          /\ (LoadEnds(k) /\ loads[k].error)
               => items' = items /\ toast' = [message |-> "Error loading bookmarks",
                                              type |-> "error"]
     /\ \A k \in TaskIdx : TaskSteps(k) => items' = items]_vars

C21_Witness ==
  /\ toast = [message |-> "Error loading bookmarks", type |-> "error"]
  /\ Len(items) = 1
  /\ DOMAIN store = {}
  /\ loads = <<>>


\* C22: once no 'storage' event is waiting in either view, each open view's darkMode
\* and strictMode are the stored values.
C22_ViewsAgreeWithStoreOnceDelivered ==
  (storageInbox = <<>> /\ peer.inbox = <<>>)
    => /\ darkMode = (localStorage.darkMode = "true")
       /\ strictMode = (localStorage.strictMode = "true")
       /\ peer.open => \A key \in PrefKeys : peer[key] = (localStorage[key] = "true")


\* the task in slot k is an add or an edit waiting for its blocking probe
BlockingProbeOutstanding(ts, k) ==
  /\ k \in 1..Len(ts)
  /\ ts[k].kind \in {"add", "edit"}
  /\ ts[k].pc = "probe"

\* C23: verifying is true only while a blocking probe is outstanding; the step that
\* starts a blocking probe sets it, the step in which the probe returns clears it,
\* reachable or not; and a state with verifying true is followed by one with it false.
C23_VerifyingOnlyWhileProbing ==
  /\ [](verifying => \E k \in TaskIdx : BlockingProbeOutstanding(tasks, k))
  /\ [][/\ (Len(tasks') = Len(tasks) + 1 /\ BlockingProbeOutstanding(tasks', Len(tasks')))
             => verifying'
        /\ \A k \in TaskIdx :
             (BlockingProbeOutstanding(tasks, k) /\ TaskSteps(k)) => ~verifying']_vars
  /\ (verifying ~> ~verifying)

\* a blocking probe found the url unreachable and the flag is clear again
C23_Witness ==
  /\ ~verifying
  /\ tasks = <<>>
  /\ toast.message = "URL verification failed: Server returned 404"


\* showToast is called in this step
Emits == timers' = timers + 1

\* C24: the step that emits a notification makes it the one shown, whatever was shown
\* before; a shown notification has a timer pending, and is followed by a state with no
\* notification shown.
C24_ToastReplacedAndDismissed ==
  /\ [][Emits => toast' = [message |-> IF strictMode' THEN "Strict mode enabled"
                                       ELSE "Strict mode disabled",
                           type |-> "success"]]_vars
  /\ [](toast # NoToast => timers > 0)
  /\ (toast # NoToast ~> toast = NoToast)

\* a notification emitted while the one before it was still shown
C24_Witness ==
  /\ timers = 2
  /\ toast.message = "Strict mode disabled"


\* C25: a shown notification is cleared only by the timer started when it was emitted:
\* when a timer clears it no older timer is pending (all timers run 4000 ms, so the
\* oldest fires first).
C25_OnlyOwnTimerDismisses ==
  [][(toast # NoToast /\ toast' = NoToast) => timers = 1]_vars


\* the host of the url is localhost, 127.0.0.1 or in 192.168.*
HostIsLocal(u) ==
  LET h == NewURL(u).hostname IN
  \/ h = <<"localhost">>
  \/ h = <<"127", "0", "0", "1">>
  \/ Len(h) = 4 /\ h[1] = "192" /\ h[2] = "168"

\* C26: for an http(s) url, the route answers reachable=true without a request exactly
\* when the url's host is local; for any other host it makes the HEAD request.
C26_SkipsExactlyLocalHosts ==
  (/\ served # NoCall
   /\ served.body.json /\ served.body.url # Missing
   /\ NewURL(served.body.url).ok
   /\ NewURL(served.body.url).protocol \in {"http:", "https:"})
    => /\ (served.met = NotProbed /\ ~served.res.threw /\ served.res.reachable)
             <=> HostIsLocal(served.body.url)
       /\ ~HostIsLocal(served.body.url) => served.met # NotProbed


\* the first non-empty string of a chain, "" when there is none
FirstNonEmpty(chain) ==
  IF \A i \in 1..Len(chain) : chain[i] = "" THEN ""
  ELSE chain[CHOOSE i \in 1..Len(chain) :
               chain[i] # "" /\ \A j \in 1..(i - 1) : chain[j] = ""]

\* the route fetched the page and got a 2xx response
PreviewFetched(call) ==
  /\ call.body.json /\ call.body.url # Missing /\ NewURL(call.body.url).ok
  /\ call.net.kind = "response" /\ call.net.status >= 200 /\ call.net.status <= 299

\* the route's fetch got another status, or was aborted by the 5 s timer
PreviewFailed(call) ==
  /\ call.body.json /\ call.body.url # Missing /\ NewURL(call.body.url).ok
  /\ \/ call.net = Aborted
     \/ call.net.kind = "response" /\ ~(call.net.status >= 200 /\ call.net.status <= 299)

\* C27: after a successful fetch each of title, description, image and favicon is the
\* first non-empty value of its chain (image and favicon made absolute), "" when the
\* page has none; after a non-2xx response or a timeout the answer is an error
\* without any of the four fields.
C27_PreviewFieldsFollowChains ==
  LET p == previewed.page
      u == previewed.body.url
      res == previewed.res
  IN
  /\ PreviewFetched(previewed)
       => /\ res.title = FirstNonEmpty(<<p.ogTitle, p.twitterTitle, p.titleText>>)
          /\ res.description = FirstNonEmpty(<<p.ogDescription, p.twitterDescription,
                                               p.metaDescription>>)
          /\ res.image = ResolveRelative(FirstNonEmpty(<<p.ogImage, p.twitterImage>>), u)
          /\ res.favicon = ResolveRelative(FirstNonEmpty(<<p.icon, p.shortcutIcon,
                                                           p.appleTouchIcon>>), u)
  /\ PreviewFailed(previewed) => DOMAIN res = {"status", "error"}


\* the add in slot k ends in this step without a row inserted: its blocking probe
\* failed, or the store refused the insert
AddAborted(k) ==
  /\ TaskSteps(k)
  /\ tasks[k].kind = "add"
  /\ tasks' = RemoveAt(tasks, k)
  /\ nextId' = nextId

\* C28: the step that aborts an add leaves the add surface open with the title and the
\* url it holds, and after a failed blocking probe the url field shows the probe's
\* message as its error.
C28_AbortedAddKeepsInput ==
  [][\A k \in TaskIdx :
       AddAborted(k)
         => /\ addModalOpen' = addModalOpen
            /\ title' = title /\ url' = url
            /\ title' = tasks[k].title /\ url' = tasks[k].url
            /\ tasks[k].pc = "probe"
                 => \E m \in {"Server returned 404", Ambiguous, "Verification failed"} :
                      urlError' = "URL may not be reachable: " \o m]_vars


\* C29: when no add, edit or verification is outstanding, the verified flag of every
\* bookmark that has one was produced by a probe of the url the bookmark has now.
C29_FlagBelongsToCurrentUrl ==
  tasks = <<>>
    => \A i \in DOMAIN store :
         store[i].verified # "null" => probedUrl[i] = store[i].url

====
